---- MODULE Spec2Model ----
(***************************************************************************)
(* Model of the yagb emulator core: PPU state machine with OAM DMA and     *)
(* STAT line, the interrupt registers, the bus lock, the CGB clock, the    *)
(* CPU dispatcher, the MBC3 cartridge with its real-time clock and the     *)
(* sample queue of the APU.  Each operator carries the name of the method  *)
(* it is translated from.  Operators work on a machine record              *)
(*     m = [ppu, intr, bus, clock, cpu, cart, queue, now, log]             *)
(* so that a handler that calls into another component composes.  now is   *)
(* the wall clock of the host in seconds, (Date.now() / 1000) | 0.         *)
(***************************************************************************)
EXTENDS Integers, Naturals, Sequences, FiniteSets, TLC

VARIABLES ppu, intr, bus, clock, cpu, cart, queue, now, log

vars == <<ppu, intr, bus, clock, cpu, cart, queue, now, log>>

(***************************************************************************)
(* Bounds of the model.                                                    *)
(***************************************************************************)
\* PPU clocks delivered to the enabled state machine before cycle() is no
\* longer offered (one frame is 70224 clocks).
MaxClocks == 72000
\* writes of the DMA register offered between two resets
MaxDmaStarts == 1
\* cycle() calls offered by the timing specification
MaxTimingCalls == 5
\* cycle() calls and register writes offered by the STAT specifications
MaxCycleCalls == 4
MaxRegWrites == 2
\* PPU clocks delivered and LCDC writes offered in the DMA specifications
MaxDmaWindow == 900
MaxLcdWrites == 1
\* step(1) calls offered by the CPU specification
MaxSteps == 3
\* cycle() calls and writes offered by the LCD access specification
MaxAccessCalls == 3
MaxAccessWrites == 2
\* writes offered to the cartridge by the MBC3 specifications, and steps of
\* the wall clock and printState() calls offered by the RTC specification
MaxCartWrites == 4
MaxRtcWrites == 3
MaxTicks == 2
\* bus writes in the specification of the battery save
MaxSaveWrites == 5
\* increment(), pauseCpu() and notifyStop() calls offered by the clock
\* specification
MaxIncrements == 2
MaxPauses == 1
MaxStops == 2
\* step(1) calls offered by the specification of the instructions
MaxExecSteps == 2

(***************************************************************************)
(* Bit helpers: the source uses &, | and << on small unsigned integers.    *)
(***************************************************************************)
\* (x & mask) !== 0 for a single-bit mask
HasBit(x, mask) == (x \div mask) % 2 = 1

\* x | mask for a single-bit mask
SetBit(x, mask) == IF HasBit(x, mask) THEN x ELSE x + mask

\* x & ~mask for a single-bit mask
ClearBit(x, mask) == IF HasBit(x, mask) THEN x - mask ELSE x

\* F applied to the value of a: a is evaluated once, before F, as a statement
\* that assigns a local is executed once before the statements that read it
With(a, F(_)) == CHOOSE r \in {F(x) : x \in {a}} : TRUE

\* storing a number into a Uint8Array element
U8(x) == x % 256

(***************************************************************************)
(* Enumerations of the PPU.                                                *)
(***************************************************************************)
reg_lcdc == 0
reg_stat == 1
reg_ly == 4
reg_lyc == 5
reg_dma == 6
reg_bgp == 7
reg_wx == 11

hblank == 0
vblank == 1
oamScan == 2
draw == 3

lcdc_enable == 128

stat_sourceLY == 64
stat_sourceModeOAM == 32
stat_sourceModeVblank == 16
stat_sourceModeHblank == 8

\* interrupt kinds (bits of IE and IF)
irq_vblank == 1
irq_stat == 2
irq_timer == 4
irq_serial == 8
irq_joypad == 16

OamSize == 160
DmaClocks == 640

(***************************************************************************)
(* Interrupt controller and bus.                                           *)
(***************************************************************************)
\* Interrupt.raise(kind): set the bit in IF; the log counts the calls made
\* by the running handler.
raise(m, kind) ==
    [m EXCEPT !.intr.if = SetBit(@, kind),
              !.log.vblank = IF kind = irq_vblank THEN @ + 1 ELSE @,
              !.log.vblankTotal = IF kind = irq_vblank THEN @ + 1 ELSE @,
              !.log.stat = IF kind = irq_stat THEN @ + 1 ELSE @]

\* Bus.lock() / Bus.unlock()
lock(m) == [m EXCEPT !.bus.locked = TRUE]
unlock(m) == [m EXCEPT !.bus.locked = FALSE]

\* Byte arrays (Uint8Array) are kept sparse: only the non-zero bytes are
\* stored, a byte that is not stored reads as 0.
ByteAt(array, index) == IF index \in DOMAIN array THEN array[index] ELSE 0

ByteSet(array, index, value) ==
    IF U8(value) = 0
    THEN [j \in (DOMAIN array) \ {index} |-> array[j]]
    ELSE [j \in (DOMAIN array) \cup {index} |-> IF j = index THEN U8(value) ELSE array[j]]

\* plain memory behind the bus
memRead(m, address) == ByteAt(m.bus.mem, address)

LcdEnabled(m) == HasBit(m.ppu.reg[reg_lcdc], lcdc_enable)

\* the test of vramRead and vramWrite: VRAM is open to the CPU
VramOpen(enabled, mode) == ~enabled \/ mode # draw

\* variant: OAM closed in Draw only
OamOpen_drawOnly(enabled, mode) == ~enabled \/ mode # draw

\* the test of oamRead and oamWrite: OAM is open to the CPU
OamOpen(enabled, mode) == ~enabled \/ (mode # draw /\ mode # oamScan)

\* Ppu.vramRead
vramRead(m, address) ==
    IF VramOpen(LcdEnabled(m), m.ppu.mode)
    THEN ByteAt(m.ppu.vram, address % 8192)
    ELSE 255

\* Ppu.oamRead
oamRead(m, address) ==
    IF OamOpen(LcdEnabled(m), m.ppu.mode)
    THEN ByteAt(m.ppu.oam, address % 256)
    ELSE 255

\* Bus.read as seen by the PPU (never gated by the lock): dispatch to the
\* handler installed for the address.
ppuBusRead(m, address) ==
    IF address >= 32768 /\ address < 40960 THEN vramRead(m, address)
    ELSE IF address >= 65024 /\ address < 65184 THEN oamRead(m, address)
    ELSE memRead(m, address)

(***************************************************************************)
(* PPU.                                                                    *)
(***************************************************************************)
\* Ppu.renderLine: the framebuffer itself is not kept; the line it wrote is.
renderLine(m) ==
    [m EXCEPT !.ppu.renderedLine = m.ppu.scanline,
              !.log.renderedMax = IF m.ppu.scanline > @ THEN m.ppu.scanline ELSE @]

\* Ppu.swapBuffers
swapBuffers(m) == [m EXCEPT !.ppu.frame = @ + 1]

\* Ppu.updateStat
StatCondition(m) ==
    LcdEnabled(m)
    /\ (\/ HasBit(m.ppu.reg[reg_stat], stat_sourceLY) /\ m.ppu.scanline = m.ppu.reg[reg_lyc]
        \/ HasBit(m.ppu.reg[reg_stat], stat_sourceModeOAM) /\ m.ppu.mode = oamScan
        \/ HasBit(m.ppu.reg[reg_stat], stat_sourceModeVblank) /\ m.ppu.mode = vblank
        \/ HasBit(m.ppu.reg[reg_stat], stat_sourceModeHblank) /\ m.ppu.mode = hblank)

\* variant: raised on the level of the line, not on its rising edge
StatRaises_level(oldStat, newStat, enabled) == newStat /\ enabled

\* the test that guards interrupt.raise(irq.stat)
StatRaises(oldStat, newStat, enabled) == newStat /\ ~oldStat /\ enabled

updateStat(m) ==
    LET oldStat == m.ppu.stat
        m1 == [m EXCEPT !.ppu.stat = StatCondition(m)]
    IN  IF StatRaises(oldStat, m1.ppu.stat, LcdEnabled(m1)) THEN raise(m1, irq_stat) ELSE m1

\* variant: the page number shifted, without the reduction below 0xE0
DmaBase_shifted(value) == value * 256

\* base address of the DMA source
DmaBase(value) == (value % 224) * 256

\* Ppu.executeDma
executeDma(m) ==
    LET m1 == [unlock(m) EXCEPT !.ppu.dmaInProgress = FALSE, !.ppu.dmaCycle = 0]
        base == DmaBase(m1.ppu.reg[reg_dma])
    IN  [m1 EXCEPT !.ppu.oam = [i \in {j \in 0..(OamSize - 1) : ppuBusRead(m1, base + j) # 0}
                                   |-> ppuBusRead(m1, base + i)],
                   !.log.dmaDone = @ + 1,
                   !.log.dmaMode = m.ppu.mode]

\* variant: HBlank one clock short
ModeClocks_shortHblank(mode) ==
    CASE mode = oamScan -> 80
      [] mode = draw -> 172
      [] mode = hblank -> 203
      [] mode = vblank -> 4560

\* the length of each mode in PPU clocks, as compared in consumeClocks
ModeClocks(mode) ==
    CASE mode = oamScan -> 80
      [] mode = draw -> 172
      [] mode = hblank -> 204
      [] mode = vblank -> 4560

\* variant: VBlank entered one line early
EntersVblank_early(scanline) == scanline = 143

\* the scanline at which the HBlank branch enters VBlank and raises vblank
EntersVblank(scanline) == scanline = 144

\* variant: the scanline counted from the start of VBlank, without the 144
\* visible lines
VblankLine_fromZero(clockInMode) == clockInMode \div 456

\* the scanline shown while in VBlank
VblankLine(clockInMode) == 144 + (clockInMode \div 456)

\* variant: the frame is presented at every end of VBlank
PresentsFrame_always(skipFrame) == TRUE

\* the test that guards swapBuffers() at the end of VBlank
PresentsFrame(skipFrame) == ~skipFrame

\* Ppu.consumeClocks: the machine after the call and the clocks it consumed
consumeClocks(m, clocks) ==
    LET cim == m.ppu.clockInMode
        stay == [m |-> [m EXCEPT !.ppu.clockInMode = @ + clocks], consumed |-> clocks]
    IN
    CASE m.ppu.mode = oamScan ->
            IF clocks + cim >= ModeClocks(oamScan)
            THEN [m |-> [m EXCEPT !.ppu.mode = draw, !.ppu.clockInMode = 0],
                  consumed |-> ModeClocks(oamScan) - cim]
            ELSE stay
      [] m.ppu.mode = draw ->
            IF clocks + cim >= ModeClocks(draw)
            THEN [m |-> renderLine([m EXCEPT !.ppu.mode = hblank, !.ppu.clockInMode = 0]),
                  consumed |-> ModeClocks(draw) - cim]
            ELSE stay
      [] m.ppu.mode = hblank ->
            IF clocks + cim >= ModeClocks(hblank)
            THEN LET m1 == [m EXCEPT !.ppu.scanline = @ + 1]
                     m2 == IF EntersVblank(m1.ppu.scanline)
                           THEN raise([m1 EXCEPT !.ppu.mode = vblank], irq_vblank)
                           ELSE [m1 EXCEPT !.ppu.mode = oamScan]
                 IN  [m |-> [m2 EXCEPT !.ppu.clockInMode = 0],
                      consumed |-> ModeClocks(hblank) - cim]
            ELSE stay
      [] m.ppu.mode = vblank ->
            IF clocks + cim >= ModeClocks(vblank)
            THEN LET m1 == [m EXCEPT !.ppu.mode = oamScan, !.ppu.clockInMode = 0,
                                     !.ppu.scanline = 0]
                     m2 == IF PresentsFrame(m1.ppu.skipFrame) THEN swapBuffers(m1) ELSE m1
                 IN  [m |-> [m2 EXCEPT !.ppu.skipFrame = FALSE],
                      consumed |-> ModeClocks(vblank) - cim]
            ELSE [m |-> [m EXCEPT !.ppu.clockInMode = @ + clocks,
                                  !.ppu.scanline = VblankLine(cim + clocks)],
                  consumed |-> clocks]

\* the test that ends a DMA in Ppu.cycle
DmaComplete(dmaCycle) == dmaCycle > DmaClocks

\* variant: the DMA advances only while the LCD is enabled
dmaLoopBody_lcdGated(s) ==
    IF s.m.ppu.dmaInProgress /\ s.clocks > 0
    THEN IF LcdEnabled(s.m)
         THEN LET m1 == [s.m EXCEPT !.ppu.dmaCycle = @ + 1, !.log.sinceDma = @ + 1]
                  m2 == IF DmaComplete(m1.ppu.dmaCycle) THEN executeDma(m1) ELSE m1
              IN  [m |-> consumeClocks(m2, 1).m, clocks |-> s.clocks - 1]
         ELSE [m |-> s.m, clocks |-> 0]
    ELSE s

\* body of the first loop of Ppu.cycle: one clock of a DMA in progress;
\* s is the machine with the clocks still to deliver
dmaLoopBody(s) ==
    IF s.m.ppu.dmaInProgress /\ s.clocks > 0
    THEN LET m1 == [s.m EXCEPT !.ppu.dmaCycle = @ + 1, !.log.sinceDma = @ + 1]
             m2 == IF DmaComplete(m1.ppu.dmaCycle) THEN executeDma(m1) ELSE m1
             m3 == IF LcdEnabled(m2) THEN consumeClocks(m2, 1).m ELSE m2
         IN  [m |-> m3, clocks |-> s.clocks - 1]
    ELSE s

\* the loop body run up to n times (by halves, which keeps evaluation shallow)
RECURSIVE dmaLoopTimes(_, _)
dmaLoopTimes(s, n) ==
    With(s, LAMBDA x :
        IF n = 0 \/ ~(x.m.ppu.dmaInProgress /\ x.clocks > 0) THEN x
        ELSE IF n = 1 THEN dmaLoopBody(x)
        ELSE dmaLoopTimes(dmaLoopTimes(x, n \div 2), n - (n \div 2)))

\* first loop of Ppu.cycle: while (dmaInProgress && systemClocks > 0)
dmaLoop(m, systemClocks) == dmaLoopTimes([m |-> m, clocks |-> systemClocks], systemClocks)

\* body of the second loop of Ppu.cycle: a whole mode at most, STAT after it
modeLoopBody(s) ==
    IF s.clocks > 0
    THEN LET r == consumeClocks(s.m, s.clocks)
         IN  [m |-> updateStat(r.m), clocks |-> s.clocks - r.consumed]
    ELSE s

RECURSIVE modeLoopTimes(_, _)
modeLoopTimes(s, n) ==
    With(s, LAMBDA x :
        IF n = 0 \/ x.clocks <= 0 THEN x
        ELSE IF n = 1 THEN modeLoopBody(x)
        ELSE modeLoopTimes(modeLoopTimes(x, n \div 2), n - (n \div 2)))

\* second loop of Ppu.cycle: while (systemClocks > 0)
modeLoop(m, systemClocks) ==
    modeLoopTimes([m |-> m, clocks |-> systemClocks], systemClocks).m

\* Ppu.cycle
cycle(m, systemClocks) ==
    LET d == dmaLoop(m, systemClocks)
        fed == IF LcdEnabled(m) THEN systemClocks ELSE 0
        m1 == [d.m EXCEPT !.log.clocks = @ + fed]
    IN  IF ~LcdEnabled(m1) THEN m1 ELSE modeLoop(m1, d.clocks)

\* Ppu.reset
ppuReset(m) ==
    [m EXCEPT !.ppu = [clockInMode |-> 0, mode |-> oamScan, scanline |-> 0, frame |-> 0,
                       stat |-> FALSE, dmaInProgress |-> FALSE, dmaCycle |-> 0,
                       skipFrame |-> FALSE,
                       vram |-> <<>>,
                       oam |-> <<>>,
                       reg |-> [i \in 0..reg_wx |-> IF i = reg_lcdc THEN lcdc_enable ELSE 0],
                       renderedLine |-> -1],
              !.log.clocks = 0, !.log.vblankTotal = 0, !.log.sinceDma = -1]


\* Ppu.registerRead
registerRead(m, address) == m.ppu.reg[address - 65344]

\* Ppu.registerWrite
registerWrite(m, address, value) ==
    updateStat([m EXCEPT !.ppu.reg[address - 65344] = U8(value)])

\* Ppu.statRead: STAT & 0xf8, the LYC flag, the mode in the low two bits
statRead(m) ==
    (m.ppu.reg[reg_stat] - (m.ppu.reg[reg_stat] % 8))
    + (IF m.ppu.reg[reg_lyc] = m.ppu.scanline THEN 4 ELSE 0)
    + m.ppu.mode

\* Ppu.lyRead
lyRead(m) == m.ppu.scanline

\* Ppu.dmaWrite
dmaWrite(m, value) ==
    lock([m EXCEPT !.ppu.reg[reg_dma] = U8(value),
                   !.ppu.dmaCycle = 0,
                   !.ppu.dmaInProgress = TRUE,
                   !.log.sinceDma = 0,
                   !.log.dmaStarts = @ + 1])

\* Ppu.bgpWrite (the palette it derives is not kept)
bgpWrite(m, value) == [m EXCEPT !.ppu.reg[reg_bgp] = U8(value)]

\* Ppu.lcdcWrite
lcdcWrite(m, value) ==
    LET oldValue == m.ppu.reg[reg_lcdc]
        m1 == [m EXCEPT !.ppu.reg[reg_lcdc] = U8(value)]
        turnedOn == ~HasBit(oldValue, lcdc_enable) /\ HasBit(m1.ppu.reg[reg_lcdc], lcdc_enable)
        turnedOff == HasBit(oldValue, lcdc_enable) /\ ~HasBit(m1.ppu.reg[reg_lcdc], lcdc_enable)
        m2 == IF turnedOn THEN [m1 EXCEPT !.ppu.skipFrame = TRUE] ELSE m1
    IN  IF turnedOff THEN swapBuffers(m2) ELSE m2

\* Ppu.vramWrite
vramWrite(m, address, value) ==
    IF VramOpen(LcdEnabled(m), m.ppu.mode)
    THEN [m EXCEPT !.ppu.vram = ByteSet(@, address % 8192, value)]
    ELSE m

\* Ppu.oamWrite
oamWrite(m, address, value) ==
    IF OamOpen(LcdEnabled(m), m.ppu.mode)
    THEN [m EXCEPT !.ppu.oam = ByteSet(@, address % 256, value)]
    ELSE m

\* High RAM, the region that stays live while the bus is locked
IsHram(address) == address >= 65408 /\ address <= 65534

\* Bus.write from outside the PPU: dropped while the bus is locked (except
\* in high RAM), else dispatched to the handler installed for the address.
busWrite(m, address, value) ==
    IF m.bus.locked /\ ~IsHram(address) THEN m
    ELSE IF address = 65344 + reg_lcdc THEN lcdcWrite(m, value)
    ELSE IF address = 65344 + reg_ly THEN m
    ELSE IF address = 65344 + reg_dma THEN dmaWrite(m, value)
    ELSE IF address = 65344 + reg_bgp THEN bgpWrite(m, value)
    ELSE IF address >= 65344 /\ address <= 65344 + reg_wx THEN registerWrite(m, address, value)
    ELSE IF address = 65295 THEN [m EXCEPT !.intr.if = U8(value) % 32]
    ELSE IF address = 65535 THEN [m EXCEPT !.intr.ie = U8(value)]
    ELSE IF address >= 65024 /\ address < 65184 THEN oamWrite(m, address, value)
    ELSE IF address >= 32768 /\ address < 40960 THEN vramWrite(m, address, value)
    ELSE [m EXCEPT !.bus.mem = ByteSet(@, address, value)]

\* Bus.read from outside the PPU: 0xFF while the bus is locked (except in
\* high RAM), else dispatched to the handler installed for the address.
busRead(m, address) ==
    IF m.bus.locked /\ ~IsHram(address) THEN 255
    ELSE IF address = 65344 + reg_ly THEN lyRead(m)
    ELSE IF address = 65344 + reg_stat THEN statRead(m)
    ELSE IF address >= 65344 /\ address <= 65344 + reg_wx THEN registerRead(m, address)
    ELSE IF address = 65295 THEN 224 + (m.intr.if % 32)
    ELSE IF address = 65535 THEN m.intr.ie
    ELSE ppuBusRead(m, address)

\* Bus.read16: little endian, the second address wraps at 16 bits
busRead16(m, address) ==
    busRead(m, address) + 256 * busRead(m, (address + 1) % 65536)

(***************************************************************************)
(* Clock (ClockCgb).                                                       *)
(***************************************************************************)
\* ClockCgb.pauseCpu; the log counts the cycles put on the queue
pauseCpu(m, oneMHzCycles) ==
    LET cycles == (IF m.clock.doubleSpeed THEN 2 ELSE 1) * oneMHzCycles
    IN  [m EXCEPT !.clock.extraCpuCycles = @ + cycles, !.log.queued = @ + cycles]

\* a component that stalls the CPU while the clock fans out (a DMA): it calls
\* pauseCpu with the next amount of the plan of stalls
componentStall(m) ==
    IF m.log.stalls = <<>> THEN m
    ELSE pauseCpu([m EXCEPT !.log.stalls = Tail(@)], Head(m.log.stalls))

\* variant: four PPU clocks for a CPU cycle at either speed
PpuClocks_single(doubleSpeed, cpuCycles) == 4 * cpuCycles

\* the argument of ppu.cycle in incrementImpl
PpuClocks(doubleSpeed, cpuCycles) ==
    IF doubleSpeed THEN 2 * cpuCycles ELSE 4 * cpuCycles

\* variant: the accumulator cleared after every call
Residue_dropped(acc) == 0

\* dividerAccCycles &= 0x01
Residue(acc) == acc % 2

\* the calls incrementImpl makes on timer, serial and APU, counted in the log
fanOut(m, cpuCycles, apuCycles) ==
    [m EXCEPT !.log.timer = @ + cpuCycles,
              !.log.serial = @ + cpuCycles,
              !.log.apu = @ + apuCycles,
              !.log.cpuSince = @ + cpuCycles,
              !.log.apuSince = @ + apuCycles]

\* ppu.cycle as the clock calls it; the log counts the clocks handed over
ppuCycle(m, systemClocks) ==
    componentStall(cycle([m EXCEPT !.log.ppu = @ + systemClocks], systemClocks))

\* ClockCgb.incrementImpl
incrementImpl(m0, cpuCycles) ==
    With(m0, LAMBDA m :
    IF m.clock.doubleSpeed
    THEN LET acc == m.clock.dividerAccCycles + cpuCycles
             oneMHzCycles == acc \div 2
             m1 == fanOut(ppuCycle([m EXCEPT !.clock.dividerAccCycles = Residue(acc)],
                                   PpuClocks(TRUE, cpuCycles)),
                          cpuCycles, oneMHzCycles)
         IN  [m1 EXCEPT !.clock.cpuCycles = @ + cpuCycles]
    ELSE LET m1 == fanOut(ppuCycle(m, PpuClocks(FALSE, cpuCycles)), cpuCycles, cpuCycles)
         IN  [m1 EXCEPT !.clock.cpuCycles = @ + 2 * cpuCycles])

\* variant: the queue drained once
drainExtra_once(m) ==
    With(m, LAMBDA m0 :
        IF m0.clock.extraCpuCycles # 0
        THEN incrementImpl([m0 EXCEPT !.clock.extraCpuCycles = 0], m0.clock.extraCpuCycles)
        ELSE m0)

\* the loop of ClockCgb.increment
RECURSIVE drainExtra(_)
drainExtra(m) ==
    With(m, LAMBDA m0 :
        IF m0.clock.extraCpuCycles # 0
        THEN drainExtra(incrementImpl([m0 EXCEPT !.clock.extraCpuCycles = 0],
                                      m0.clock.extraCpuCycles))
        ELSE m0)

\* ClockCgb.increment
increment(m, cpuCycles) == drainExtra(incrementImpl(m, cpuCycles))

\* ClockCgb.resetCpuCycles
resetCpuCycles(m) == [m EXCEPT !.clock.cpuCycles = 0]

\* the CPU cycles of the stall of a speed switch
StopCycles == 130996

\* variant: STOP switches the speed whether or not a switch is pending
StopSwitches_always(speedSwitchPending) == TRUE

\* the test of notifyStop
StopSwitches(speedSwitchPending) == speedSwitchPending

\* ClockCgb.notifyStop; the log starts the count of the cycles since the
\* switch
notifyStop(m) ==
    IF ~StopSwitches(m.clock.speedSwitchPending) THEN m
    ELSE LET m1 == incrementImpl([m EXCEPT !.clock.doubleSpeed = ~@], StopCycles)
         IN  [m1 EXCEPT !.clock.dividerAccCycles = 0,
                        !.clock.speedSwitchPending = FALSE,
                        !.log.cpuSince = 0,
                        !.log.apuSince = 0]

\* ClockCgb.isDoubleSpeed
isDoubleSpeed(m) == m.clock.doubleSpeed

\* ClockCgb.key1Read and key1Write, the handlers of the KEY1 register
key1Read(m) ==
    126 + (IF m.clock.doubleSpeed THEN 128 ELSE 0)
        + (IF m.clock.speedSwitchPending THEN 1 ELSE 0)

key1Write(m, value) == [m EXCEPT !.clock.speedSwitchPending = HasBit(value, 1)]

\* ClockCgb.reset
clockReset(m) ==
    [m EXCEPT !.clock = [cpuCycles |-> 0, extraCpuCycles |-> 0, doubleSpeed |-> FALSE,
                         dividerAccCycles |-> 0, speedSwitchPending |-> FALSE]]


(***************************************************************************)
(* CPU: register file, instruction table, dispatcher.                      *)
(***************************************************************************)
r8_f == 0
r8_a == 1
r8_c == 2
r8_b == 3
r8_e == 4
r8_d == 5
r8_l == 6
r8_h == 7

r16_af == 0
r16_bc == 1
r16_de == 2
r16_hl == 3
r16_sp == 4

flag_z == 128
flag_n == 64
flag_h == 32
flag_c == 16

\* a ^ b on unsigned integers
RECURSIVE BitXor(_, _)
BitXor(a, b) ==
    IF a = 0 THEN b
    ELSE IF b = 0 THEN a
    ELSE ((a + b) % 2) + 2 * BitXor(a \div 2, b \div 2)

\* a & b on unsigned integers
RECURSIVE BitAnd(_, _)
BitAnd(a, b) ==
    IF a = 0 \/ b = 0 THEN 0
    ELSE ((a % 2) * (b % 2)) + 2 * BitAnd(a \div 2, b \div 2)

\* extendSign8
extendSign8(x) == IF HasBit(x, 128) THEN -((256 - x) % 256) ELSE x

\* the byte view r8 of the register buffer (little endian host)
R8(m, i) ==
    IF i % 2 = 0 THEN m.cpu.r16[i \div 2] % 256 ELSE m.cpu.r16[i \div 2] \div 256

SetR8(m, i, value) ==
    IF i % 2 = 0
    THEN [m EXCEPT !.cpu.r16[i \div 2] = (@ \div 256) * 256 + U8(value)]
    ELSE [m EXCEPT !.cpu.r16[i \div 2] = U8(value) * 256 + (@ % 256)]

SetR16(m, i, value) == [m EXCEPT !.cpu.r16[i] = value % 65536]

\* one entry of the instruction table
Instr(operation, addressingMode, par1, par2, cycles, len) ==
    [operation |-> operation, addressingMode |-> addressingMode,
     par1 |-> par1, par2 |-> par2, cycles |-> cycles, len |-> len]

\* applySeriesR8_1: the register of the series at this opcode, or -1
SeriesR8(opcode, baseB, baseC) ==
    IF opcode = baseB THEN r8_b
    ELSE IF opcode = baseB + 16 THEN r8_d
    ELSE IF opcode = baseB + 32 THEN r8_h
    ELSE IF opcode = baseC THEN r8_c
    ELSE IF opcode = baseC + 16 THEN r8_e
    ELSE IF opcode = baseC + 32 THEN r8_l
    ELSE IF opcode = baseC + 48 THEN r8_a
    ELSE -1

\* the register lists the table is built from
LdRow == <<r8_c, r8_e, r8_l, r8_a>>
LdColumn == <<r8_a, r8_b, r8_c, r8_d, r8_e, r8_h, r8_l>>
AluRegs == <<r8_b, r8_c, r8_d, r8_e, r8_h, r8_l>>
IncDecRegs16 == <<r16_bc, r16_de, r16_hl, r16_sp>>
StackRegs16 == <<r16_bc, r16_de, r16_hl, r16_af>>

\* the instruction table after all apply() calls: the entry of an opcode
instructions(opcode) ==
    LET hi == opcode \div 16
        lo == opcode % 16
    IN
    CASE opcode = 0 -> Instr("nop", "implicit", 0, 0, 1, 1)
      [] opcode = 195 -> Instr("jp", "imm16", 0, 0, 4, 3)
      [] opcode = 168 -> Instr("xor", "reg8", r8_b, 0, 1, 1)
      [] opcode = 169 -> Instr("xor", "reg8", r8_c, 0, 1, 1)
      [] opcode = 170 -> Instr("xor", "reg8", r8_d, 0, 1, 1)
      [] opcode = 171 -> Instr("xor", "reg8", r8_e, 0, 1, 1)
      [] opcode = 172 -> Instr("xor", "reg8", r8_h, 0, 1, 1)
      [] opcode = 173 -> Instr("xor", "reg8", r8_l, 0, 1, 1)
      [] opcode = 175 -> Instr("xor", "reg8", r8_a, 0, 1, 1)
      [] opcode = 49 -> Instr("ld", "reg16_imm16", r16_sp, 0, 3, 3)
      [] opcode = 33 -> Instr("ld", "reg16_imm16", r16_hl, 0, 3, 3)
      [] opcode = 17 -> Instr("ld", "reg16_imm16", r16_de, 0, 3, 3)
      [] opcode = 1 -> Instr("ld", "reg16_imm16", r16_bc, 0, 3, 3)
      [] opcode = 54 -> Instr("ld", "ind8_imm8", r16_hl, 0, 3, 2)
      [] opcode = 234 -> Instr("ld", "immind8_reg8", 0, r8_a, 4, 3)
      [] opcode = 240 -> Instr("ld", "reg8_imm8io", r8_a, 0, 3, 2)
      [] opcode = 224 -> Instr("ld", "imm8io_reg8", 0, r8_a, 3, 2)
      [] opcode = 226 -> Instr("ld", "reg8io_reg8", r8_c, 0, 2, 1)
      [] opcode = 242 -> Instr("ld", "reg8_reg8io", 0, r8_c, 2, 1)
      [] hi \in 4..7 /\ lo \in 7..13 /\ LdRow[hi - 3] # LdColumn[lo - 6] ->
            Instr("ld", "reg8_reg8", LdRow[hi - 3], LdColumn[lo - 6], 1, 1)
      [] SeriesR8(opcode, 6, 14) # -1 ->
            Instr("ld", "reg8_imm8", SeriesR8(opcode, 6, 14), 0, 2, 2)
      [] opcode = 34 -> Instr("ldi", "ind8_reg8", r16_hl, r8_a, 2, 1)
      [] opcode = 50 -> Instr("ldd", "ind8_reg8", r16_hl, r8_a, 2, 1)
      [] opcode = 42 -> Instr("ldi", "reg8_ind8", r8_a, r16_hl, 2, 1)
      [] opcode = 58 -> Instr("ldd", "reg8_ind8", r8_a, r16_hl, 2, 1)
      [] SeriesR8(opcode, 4, 12) # -1 ->
            Instr("inc", "reg8", SeriesR8(opcode, 4, 12), 0, 1, 1)
      [] SeriesR8(opcode, 5, 13) # -1 ->
            Instr("dec", "reg8", SeriesR8(opcode, 5, 13), 0, 1, 1)
      [] hi \in 0..3 /\ lo = 11 -> Instr("dec", "reg16", IncDecRegs16[hi + 1], 0, 2, 1)
      [] hi \in 0..3 /\ lo = 3 -> Instr("inc", "reg16", IncDecRegs16[hi + 1], 0, 2, 1)
      [] opcode = 32 -> Instr("jrnz", "imm8", 0, 0, 2, 2)
      [] opcode = 243 -> Instr("di", "implicit", 0, 0, 1, 1)
      [] opcode = 251 -> Instr("ei", "implicit", 0, 0, 1, 1)
      [] opcode = 254 -> Instr("cp", "imm8", 0, 0, 2, 2)
      [] opcode = 205 -> Instr("call", "imm16", 0, 0, 8, 3)
      [] opcode \in 176..181 -> Instr("or", "reg8", AluRegs[opcode - 175], 0, 1, 1)
      [] opcode \in 160..165 -> Instr("and", "reg8", AluRegs[opcode - 159], 0, 1, 1)
      [] opcode = 183 -> Instr("or", "reg8", r8_a, 0, 1, 1)
      [] opcode = 167 -> Instr("and", "reg8", r8_a, 0, 1, 1)
      [] opcode = 201 -> Instr("ret", "implicit", 0, 0, 4, 1)
      [] opcode = 47 -> Instr("cpl", "implicit", 0, 0, 1, 1)
      [] hi \in 12..15 /\ lo = 5 -> Instr("push", "reg16", StackRegs16[hi - 11], 0, 4, 1)
      [] hi \in 12..15 /\ lo = 1 -> Instr("pop", "reg16", StackRegs16[hi - 11], 0, 3, 1)
      [] OTHER -> Instr("invalid", "implicit", 0, 0, 0, 1)

\* decodeInstruction
decodeInstruction(m, address) == instructions(busRead(m, address))


\* addressing modes each accessor of the dispatcher handles; any other mode
\* makes it throw 'bad addressing mode'
GetArg1Modes == {"imm8", "imm8_reg8", "imm16", "reg8", "reg16_imm16", "reg8_imm8", "ind_reg8"}
SetArg1Modes == {"reg8", "reg16_imm16", "reg8_imm8", "ind_reg8"}
GetArg2Modes == {"reg16_imm16", "reg8_imm8", "ind_reg8", "imm8_reg8"}

\* Cpu.getArg1
getArg1(m, instruction) ==
    LET mode == instruction.addressingMode IN
    CASE mode \in {"imm8", "imm8_reg8"} -> busRead(m, (m.cpu.p + instruction.par1) % 65536)
      [] mode = "imm16" -> busRead16(m, (m.cpu.p + instruction.par1) % 65536)
      [] mode = "reg8" -> R8(m, instruction.par1)
      [] mode = "reg16_imm16" -> m.cpu.r16[instruction.par1]
      [] mode = "reg8_imm8" -> R8(m, instruction.par1)
      [] mode = "ind_reg8" -> busRead(m, m.cpu.r16[instruction.par1])

\* Cpu.setArg1
setArg1(m, instruction, value) ==
    LET mode == instruction.addressingMode IN
    CASE mode = "reg8" -> SetR8(m, instruction.par1, value)
      [] mode = "reg16_imm16" -> SetR16(m, instruction.par1, value)
      [] mode = "reg8_imm8" -> SetR8(m, instruction.par1, value)
      [] mode = "ind_reg8" -> busWrite(m, m.cpu.r16[instruction.par1], U8(value))

\* Cpu.getArg2
getArg2(m, instruction) ==
    LET mode == instruction.addressingMode IN
    CASE mode = "reg16_imm16" -> busRead16(m, (m.cpu.p + instruction.par2) % 65536)
      [] mode = "reg8_imm8" -> busRead(m, (m.cpu.p + instruction.par2) % 65536)
      [] mode \in {"ind_reg8", "imm8_reg8"} -> R8(m, instruction.par2)

\* an accessor threw: the exception leaves dispatch and step
Throw(m) == [m EXCEPT !.log.error = "bad addressing mode"]

\* System.break
break(m, message) == [m EXCEPT !.log.break = message]

AdvanceP(m, len) == [m EXCEPT !.cpu.p = (@ + len) % 65536]

\* variant: H set by a decrement whose result has the low nibble 0
HalfBorrow_resultZero(operand) == (operand - 1) % 16 = 0

\* (((operand & 0x0f) - 1) & 0xf0) > 0
HalfBorrow(operand) == (operand % 16) - 1 < 0

\* variant: H set by an increment whose result has the low nibble 0x0F
HalfCarry_resultF(operand) == (operand + 1) % 16 = 15

\* (((operand & 0x0f) + 1) & 0xf0) > 0
HalfCarry(operand) == (operand % 16) + 1 >= 16

\* return cycles: the log adds up what dispatch returns; a dispatch that
\* threw returns nothing
Return(m, cycles) == IF m.log.error # "" THEN m ELSE [m EXCEPT !.log.cost = @ + cycles]

\* a variant of the flags of xor in which the test of A yields a boolean
\* that is stored as 0 or 1
ZeroFlag_boolean(a) == IF a # 0 THEN 0 ELSE 1

\* the flags of xor: this.state.r8[r8.a] ? 0 : flag.z
ZeroFlag(a) == IF a # 0 THEN 0 ELSE flag_z

\* Cpu.dispatch: the cases that start with clock.increment(instruction.cycles)
dispatchCase(m1, instruction) ==
    LET op == instruction.operation
        mode == instruction.addressingMode
    IN
    CASE op \in {"dec", "inc"} ->
            IF mode \notin GetArg1Modes \/ mode \notin SetArg1Modes THEN Throw(m1)
            ELSE With(getArg1(m1, instruction), LAMBDA operand :
                 With(IF op = "dec" THEN operand - 1 ELSE operand + 1, LAMBDA result :
                 With(setArg1(m1, instruction, result), LAMBDA m2 :
                     AdvanceP(SetR8(m2, r8_f,
                                    (IF HasBit(R8(m2, r8_f), flag_c) THEN flag_c ELSE 0)
                                    + (IF op = "dec" THEN flag_n ELSE 0)
                                    + (IF result % 256 = 0 THEN flag_z ELSE 0)
                                    + (IF op = "dec"
                                       THEN (IF HalfBorrow(operand) THEN flag_h ELSE 0)
                                       ELSE (IF HalfCarry(operand) THEN flag_h ELSE 0))),
                              instruction.len))))
      [] op = "di" ->
            AdvanceP([m1 EXCEPT !.cpu.enableInterrupts = FALSE], instruction.len)
      [] op = "jp" ->
            IF mode \notin GetArg1Modes THEN Throw(m1)
            ELSE [m1 EXCEPT !.cpu.p = getArg1(m1, instruction)]
      [] op \in {"ld", "ldd", "ldi"} ->
            IF mode \notin GetArg2Modes \/ mode \notin SetArg1Modes THEN Throw(m1)
            ELSE With(setArg1(m1, instruction, getArg2(m1, instruction)), LAMBDA m2 :
                     AdvanceP(IF op = "ldd" THEN SetR16(m2, r16_hl, m2.cpu.r16[r16_hl] - 1)
                              ELSE IF op = "ldi" THEN SetR16(m2, r16_hl, m2.cpu.r16[r16_hl] + 1)
                              ELSE m2,
                              instruction.len))
      [] op = "ldh" ->
            IF mode \notin GetArg1Modes \/ mode \notin GetArg2Modes THEN Throw(m1)
            ELSE AdvanceP(busWrite(m1, (65280 + getArg1(m1, instruction)) % 65536,
                                   getArg2(m1, instruction)),
                          instruction.len)
      [] op = "nop" -> AdvanceP(m1, instruction.len)
      [] op = "xor" ->
            IF mode \notin GetArg1Modes THEN Throw(m1)
            ELSE With(BitXor(R8(m1, r8_a), getArg1(m1, instruction)) % 256, LAMBDA a :
                     AdvanceP(SetR8(SetR8(m1, r8_a, a), r8_f, ZeroFlag(a)),
                              instruction.len))

\* Cpu.dispatch
dispatch(m, instruction) ==
    With(<<m, instruction>>, LAMBDA arg :
        IF arg[2].operation = "jrnz"
        THEN With(~HasBit(R8(arg[1], r8_f), flag_z), LAMBDA condition :
             With(increment(arg[1], arg[2].cycles + (IF condition THEN 1 ELSE 0)), LAMBDA m2 :
                 IF arg[2].addressingMode \notin GetArg1Modes THEN Throw(m2)
                 ELSE With(extendSign8(getArg1(m2, arg[2])), LAMBDA displacement :
                          Return(IF condition
                                 THEN AdvanceP(AdvanceP(m2, arg[2].len), displacement)
                                 ELSE AdvanceP(m2, arg[2].len),
                                 arg[2].cycles + (IF condition THEN 1 ELSE 0)))))
        ELSE IF arg[2].operation \in {"dec", "inc", "di", "jp", "ld", "ldd", "ldi", "ldh",
                                      "nop", "xor"}
        THEN With(increment(arg[1], arg[2].cycles), LAMBDA m1 :
                 Return(dispatchCase(m1, arg[2]), arg[2].cycles))
        ELSE Return(break(arg[1], "invalid instruction"), 0))

\* Cpu.step
RECURSIVE step(_, _)
step(m, count) ==
    With(m, LAMBDA m0 :
        IF count = 0 \/ m0.log.error # "" THEN m0
        ELSE step(dispatch(m0, decodeInstruction(m0, m0.cpu.p)), count - 1))

\* Cpu.constructor: the state object.  interruptsEnabled is not a field of
\* CpuState: the object has no such property (<<>>) until the host assigns
\* one (<<value>>), and no method of the Cpu reads or writes it.
Cpu ==
    [r16 |-> [i \in 0..4 |-> 0],
     p |-> 0,
     enableInterrupts |-> FALSE,
     interruptsEnabled |-> <<>>]

\* Cpu.reset
cpuReset(m) ==
    [m EXCEPT !.cpu.r16 = [i \in 0..4 |->
                              CASE i = r16_af -> 256
                                [] i = r16_bc -> 19
                                [] i = r16_de -> 216
                                [] i = r16_hl -> 333
                                [] i = r16_sp -> 65534],
              !.cpu.p = 256,
              !.cpu.enableInterrupts = FALSE]


\* Interrupt.reset
intrReset(m) == [m EXCEPT !.intr = [ie |-> 0, if |-> 0]]

(***************************************************************************)
(* MBC3 cartridge (CartridgeMbc3).  ROM and RAM sizes are counted in banks *)
(* of 16 KiB and 8 KiB; image and ram are sparse byte arrays.              *)
(***************************************************************************)
\* the cartridge types of the MBC3 family (CartridgeType)
Mbc3Types == {"mbc3", "mbc3_ram", "mbc3_ram_battery", "mbc3_timer_battery",
              "mbc3_timer_ram_battery"}

\* the types reset() and getRam() treat as battery backed
BatteryTypes == {"mbc3_ram_battery", "mbc3_timer_battery", "mbc3_timer_ram_battery"}

RomBankSize == 16384
RamBankSize == 8192

\* the result of x % 0 and what an index of it selects
NaN == -1

\* (a / b) | 0 : the quotient truncated towards zero
Trunc(a, b) == IF a >= 0 THEN a \div b ELSE -((-a) \div b)

\* a % b of the source language: the remainder has the sign of a
Rem(a, b) == IF a >= 0 THEN a % b ELSE -((-a) % b)

\* the constructor accepts the image: ROM of 2..128 whole banks, RAM of
\* whole banks
Accepted(romBanks, ramBanks) == romBanks >= 2 /\ romBanks <= 128 /\ ramBanks >= 0

\* new CartridgeMbc3(image, system): the fields after construction
CartridgeMbc3(type, image, romBanks, ramBanks, time) ==
    [type |-> type, image |-> image, romBanks |-> romBanks, ramBanks |-> ramBanks,
     ram |-> <<>>,
     romBankIndex |-> 1, ramBankIndex |-> 0,
     secondsLatched |-> 0, minutesLatched |-> 0, hoursLatched |-> 0, daysLatched |-> 0,
     secondsCurrent |-> 0, minutesCurrent |-> 0, hoursCurrent |-> 0, daysCurrent |-> 0,
     halt |-> FALSE, ramEnable |-> FALSE, registerSelect |-> 0,
     lastLatch |-> 255, referenceTimestamp |-> time]

\* this.ram.length
RamLength(m) == m.cart.ramBanks * RamBankSize

\* CartridgeMbc3.materializeClock
materializeClock(m) ==
    LET elapsed == m.now - m.cart.referenceTimestamp
        time0 == IF elapsed < 0 THEN 0 ELSE elapsed
        days == Trunc(time0, 24 * 3600)
        time1 == time0 - days * 24 * 3600
        hours == Trunc(time1, 3600)
        time2 == time1 - days * 3600
        minutes == Trunc(time2, 60)
        time3 == time2 - minutes * 60
    IN  [m EXCEPT !.cart.daysCurrent = days,
                  !.cart.hoursCurrent = hours,
                  !.cart.minutesCurrent = minutes,
                  !.cart.secondsCurrent = time3]

\* CartridgeMbc3.latch
latch(m) ==
    LET m1 == materializeClock(m)
    IN  [m1 EXCEPT !.cart.secondsCurrent = m1.cart.secondsLatched,
                   !.cart.minutesCurrent = m1.cart.minutesLatched,
                   !.cart.hoursCurrent = m1.cart.hoursLatched,
                   !.cart.daysCurrent = m1.cart.daysLatched,
                   !.log.latch = @ + 1]

\* CartridgeMbc3.updateClock
updateClock(m) ==
    LET time == (m.cart.daysCurrent % 512) * 24 * 3600
                + Rem(m.cart.hoursCurrent, 24) * 3600
                + Rem(m.cart.minutesCurrent, 60) * 60
                + Rem(m.cart.secondsCurrent, 60)
    IN  [m EXCEPT !.cart.referenceTimestamp = m.now - time]

\* CartridgeMbc3.readRegister
readRegister(m, register) ==
    CASE register = 8 -> m.cart.secondsLatched
      [] register = 9 -> m.cart.minutesLatched
      [] register = 10 -> m.cart.hoursLatched
      [] register = 11 -> m.cart.daysLatched % 256
      [] register = 12 ->
            ((m.cart.daysLatched \div 256) % 2)
            + (IF m.cart.halt THEN 64 ELSE 0)
            + (IF m.cart.daysLatched > 511 THEN 128 ELSE 0)
      [] OTHER -> 0

\* CartridgeMbc3.writeRegister
writeRegister(m, register, value) ==
    IF register \notin 8..12 THEN m
    ELSE
    LET m1 == IF ~m.cart.halt THEN materializeClock(m) ELSE m
        m2 == CASE register = 8 -> [m1 EXCEPT !.cart.secondsCurrent = BitAnd(value, 60)]
                [] register = 9 -> [m1 EXCEPT !.cart.minutesCurrent = BitAnd(value, 60)]
                [] register = 10 -> [m1 EXCEPT !.cart.hoursCurrent = BitAnd(value, 24)]
                [] register = 11 ->
                      [m1 EXCEPT !.cart.daysCurrent = (@ - (@ % 256)) + value]
                [] register = 12 ->
                      [m1 EXCEPT !.cart.halt = HasBit(value, 64),
                                 !.cart.daysCurrent = (@ % 256) + 256 * (value % 2)]
    IN  IF ~m2.cart.halt THEN updateClock(m2) ELSE m2

\* a save image: its length and its bytes (sparse); no save is length -1
NoSave == [length |-> -1, bytes |-> <<>>]

\* a 32-bit value read from four bytes with |, the result a signed 32-bit
\* integer
Int32Of(b0, b1, b2, b3) ==
    b0 + 256 * b1 + 65536 * b2 + 16777216 * (IF b3 >= 128 THEN b3 - 256 ELSE b3)

\* CartridgeMbc3.getRam
getRam(m) ==
    IF m.cart.type \in BatteryTypes
    THEN LET len == RamLength(m)
             ts == m.cart.referenceTimestamp
             stamp == [k \in 0..3 |-> (ts \div (IF k = 0 THEN 1 ELSE IF k = 1 THEN 256
                                                ELSE IF k = 2 THEN 65536 ELSE 16777216)) % 256]
             keys == (DOMAIN m.cart.ram) \cup {len + k : k \in {j \in 0..3 : stamp[j] # 0}}
         IN  [length |-> len + 4,
              bytes |-> [a \in keys |-> IF a < len THEN m.cart.ram[a] ELSE stamp[a - len]]]
    ELSE NoSave

\* variant: the save taken to be the RAM alone
saveSize_ramOnly(m) == RamLength(m)

\* the saveSize of reset: the RAM and the four bytes of the timestamp
saveSize(m) == RamLength(m) + 4

\* CartridgeMbc3.reset
cartReset(m, savedRam) ==
    LET len == RamLength(m)
        m1 == [m EXCEPT !.cart.romBankIndex = 1,
                        !.cart.ramBankIndex = 0,
                        !.cart.halt = FALSE,
                        !.cart.lastLatch = 255,
                        !.cart.ramEnable = FALSE,
                        !.cart.registerSelect = 0]
        m2 == IF m1.cart.type \in BatteryTypes
              THEN IF savedRam.length = saveSize(m1)
                   THEN [m1 EXCEPT
                            !.cart.ram = [a \in {k \in DOMAIN savedRam.bytes : k < len}
                                             |-> savedRam.bytes[a]],
                            !.cart.referenceTimestamp =
                                Int32Of(ByteAt(savedRam.bytes, len),
                                        ByteAt(savedRam.bytes, len + 1),
                                        ByteAt(savedRam.bytes, len + 2),
                                        ByteAt(savedRam.bytes, len + 3))]
                   ELSE m1
              ELSE [m1 EXCEPT !.cart.ram = <<>>, !.cart.referenceTimestamp = m1.now]
    IN  latch(m2)

\* CartridgeMbc3.clearRam
clearRam(m) == [m EXCEPT !.cart.ram = <<>>, !.cart.referenceTimestamp = m.now]

\* CartridgeMbc3.printState: the clock is materialised for the text
printState(m) == materializeClock(m)

\* CartridgeMbc3.readBank0 and readBank1
readBank0(m, address) == ByteAt(m.cart.image, address)

readBank1(m, address) ==
    ByteAt(m.cart.image, m.cart.romBankIndex * RomBankSize + (address % RomBankSize))

\* variant: the offset into the bank taken from twelve bits of the address
RamOffset_masked(address) == (address - 40960) % 4096

\* variant: the offset taken from the start of video RAM, 0x8000
RamOffset_fromVram(address) == address - 32768

\* the index into ramBank of an address of the window 0xA000..0xBFFF
RamOffset(address) == address - 40960

\* CartridgeMbc3.readBankRam
readBankRam(m, address) ==
    IF ~m.cart.ramEnable THEN 255
    ELSE IF m.cart.registerSelect > 0 THEN readRegister(m, m.cart.registerSelect)
    ELSE ByteAt(m.cart.ram, m.cart.ramBankIndex * RamBankSize + RamOffset(address))

\* CartridgeMbc3.writeRamEnable
writeRamEnable(m, value) ==
    [m EXCEPT !.cart.ramEnable = (value = 10 /\ RamLength(m) > 0)]

\* CartridgeMbc3.writeRomBankIndex
writeRomBankIndex(m, value) ==
    [m EXCEPT !.cart.romBankIndex = IF value = 0 THEN 1 ELSE value % m.cart.romBanks]

\* CartridgeMbc3.writeRamBankIndex
writeRamBankIndex(m, value) ==
    IF value <= 3
    THEN [m EXCEPT !.cart.ramBankIndex =
                       IF m.cart.ramBanks = 0 THEN NaN ELSE value % m.cart.ramBanks,
                   !.cart.registerSelect = 0]
    ELSE [m EXCEPT !.cart.registerSelect = value]

\* variant: the latch triggered by every write of 1
LatchTriggers_level(value, lastLatch) == value = 1

\* the test of writeLatch that guards latch()
LatchTriggers(value, lastLatch) == value = 1 /\ lastLatch = 0

\* CartridgeMbc3.writeLatch
writeLatch(m, value) ==
    LET m1 == IF LatchTriggers(value, m.cart.lastLatch) THEN latch(m) ELSE m
    IN  [m1 EXCEPT !.cart.lastLatch = value]

\* CartridgeMbc3.writeBankRam
writeBankRam(m, address, value) ==
    IF ~m.cart.ramEnable THEN m
    ELSE IF m.cart.registerSelect > 0 THEN writeRegister(m, m.cart.registerSelect, value)
    ELSE [m EXCEPT !.cart.ram =
                       ByteSet(@, m.cart.ramBankIndex * RamBankSize + RamOffset(address),
                               value)]

\* CartridgeMbc3.install: the handlers mapped on the bus
cartRead(m, address) ==
    IF address < 16384 THEN readBank0(m, address)
    ELSE IF address < 32768 THEN readBank1(m, address)
    ELSE readBankRam(m, address)

cartWrite(m, address, value) ==
    IF address < 8192 THEN writeRamEnable(m, value)
    ELSE IF address < 16384 THEN writeRomBankIndex(m, value)
    ELSE IF address < 24576 THEN writeRamBankIndex(m, value)
    ELSE IF address < 32768 THEN writeLatch(m, value)
    ELSE writeBankRam(m, address, value)

(***************************************************************************)
(* State, initial state and the operations offered to the host.            *)
(***************************************************************************)
\* the observation log at the start of a handler: the per-call counters are
\* cleared, the totals are kept
StartLog(op) ==
    [log EXCEPT !.op = op, !.vblank = 0, !.stat = 0, !.dmaDone = 0,
                !.timer = 0, !.serial = 0, !.apu = 0, !.error = "", !.break = "",
                !.statBefore = ppu.stat, !.latch = 0, !.address = 0, !.value = 0,
                !.ppu = 0, !.n = 0, !.cost = 0, !.out = <<>>,
                !.queued = IF log.op = "increment" THEN 0 ELSE @]

\* the machine a handler starts from
M(op) == [ppu |-> ppu, intr |-> intr, bus |-> bus, clock |-> clock, cpu |-> cpu,
          cart |-> cart, queue |-> queue, now |-> now, log |-> StartLog(op)]

Commit(m) ==
    \E x \in {m} :
        /\ ppu' = x.ppu
        /\ intr' = x.intr
        /\ bus' = x.bus
        /\ clock' = x.clock
        /\ cpu' = x.cpu
        /\ cart' = x.cart
        /\ queue' = x.queue
        /\ now' = x.now
        /\ log' = x.log

\* the machine after construction and reset, with the given memory image
Booted(mem) ==
    cpuReset(clockReset(ppuReset(intrReset(
        [ppu |-> <<>>, intr |-> <<>>, clock |-> <<>>, cpu |-> Cpu,
         bus |-> [locked |-> FALSE, mem |-> mem],
         cart |-> <<>>, queue |-> <<>>, now |-> 0,
         log |-> [op |-> "boot", clocks |-> 0, vblankTotal |-> 0, vblank |-> 0, stat |-> 0,
                  dmaDone |-> 0, dmaMode |-> -1, sinceDma |-> -1, dmaStarts |-> 0,
                  timer |-> 0, serial |-> 0, apu |-> 0, error |-> "", break |-> "",
                  statBefore |-> FALSE, calls |-> 0, writes |-> 0,
                  latch |-> 0, address |-> 0, value |-> 0,
                  enabledAt |-> -1, frameAt |-> 0, lastLatchWrite |-> -1,
                  save |-> NoSave, savedRam |-> <<>>, savedRef |-> 0,
                  ramBefore |-> <<>>, refBefore |-> 0,
                  ppu |-> 0, n |-> 0, queued |-> 0, stalls |-> <<>>,
                  cpuSince |-> 0, apuSince |-> 0, stops |-> 0, cost |-> 0,
                  opcode |-> -1, pushes |-> 0, held |-> <<>>, out |-> <<>>,
                  renderedMax |-> -1, resets |-> 0]]))))

InitWith(mem) ==
    LET m == Booted(mem) IN
    /\ ppu = m.ppu
    /\ intr = m.intr
    /\ bus = m.bus
    /\ clock = m.clock
    /\ cpu = m.cpu
    /\ cart = m.cart
    /\ queue = m.queue
    /\ now = m.now
    /\ log = m.log

\* bus.write(0xFF46, value)
DmaWrite(value) ==
    /\ log.dmaStarts < MaxDmaStarts
    /\ Commit(busWrite(M("dmaWrite"), 65344 + reg_dma, value))

\* bus.write(0xFF40, value)
LcdcWrite(value) == Commit(busWrite(M("lcdcWrite"), 65344 + reg_lcdc, value))

\* bus.write(0xFF41, value) and bus.write(0xFF45, value)
StatWrite(value) == Commit(busWrite(M("statWrite"), 65344 + reg_stat, value))
LycWrite(value) == Commit(busWrite(M("lycWrite"), 65344 + reg_lyc, value))

\* reset of the machine: the reset() of every component
Reset == Commit(cpuReset(clockReset(ppuReset(intrReset(M("reset"))))))

(***************************************************************************)
(* SpecTiming: the PPU state machine driven from reset by cycle() calls of *)
(* several sizes: a clock or a few, a whole mode, a whole line, 143 lines, *)
(* a whole VBlank, a whole frame.  An OAM DMA is started at the beginning  *)
(* of line 0, of line 143 and of VBlank.                                   *)
(***************************************************************************)
TimingChunks == {1, 7, 80, 172, 204, 456, 4560, 65208, 70224}
DmaLines == {0, 143, 144}

InitTiming == InitWith(<<>>)

Counted(m, field) ==
    IF field = "calls" THEN [m EXCEPT !.log.calls = @ + 1]
    ELSE [m EXCEPT !.log.writes = @ + 1]

CycleT ==
    \E n \in TimingChunks :
        /\ log.calls < MaxTimingCalls
        /\ log.clocks + n <= MaxClocks
        /\ Commit(Counted(cycle(M("cycle"), n), "calls"))

DmaWriteT ==
    /\ ppu.clockInMode = 0
    /\ ppu.scanline \in DmaLines
    /\ DmaWrite(1)

NextTiming == CycleT \/ DmaWriteT

SpecTiming == InitTiming /\ [][NextTiming]_vars

\* where the state machine stands after t clocks from reset
FrameClocks == 70224
VisibleClocks == 65664

PpuAt(t) ==
    LET u == t % FrameClocks
        r == u % 456
    IN  IF u < VisibleClocks
        THEN [scanline |-> u \div 456,
              mode |-> IF r < 80 THEN oamScan ELSE IF r < 252 THEN draw ELSE hblank,
              clockInMode |-> IF r < 80 THEN r ELSE IF r < 252 THEN r - 80 ELSE r - 252]
        ELSE [scanline |-> 144 + ((u - VisibleClocks) \div 456),
              mode |-> vblank,
              clockInMode |-> u - VisibleClocks]

\* C1: from reset with the LCD enabled, mode, LY and clock-in-mode are the
\* function of the total number of clocks delivered that gives 80 clocks of
\* OAM-scan, 172 of Draw and 204 of HBlank on lines 0..143, 4560 clocks of
\* VBlank with LY 144..153, and OAM-scan at LY=0 again after 70224 clocks,
\* however the clocks were split across cycle() calls.
C1_TimingByTotalClocks ==
    /\ ppu.mode = PpuAt(log.clocks).mode
    /\ ppu.scanline = PpuAt(log.clocks).scanline
    /\ ppu.clockInMode = PpuAt(log.clocks).clockInMode
    /\ ppu.frame = log.clocks \div FrameClocks

C1_Witness ==
    /\ log.clocks = FrameClocks
    /\ log.op = "cycle"
    /\ ppu.mode = oamScan /\ ppu.scanline = 0 /\ ppu.clockInMode = 0
    /\ ppu.frame = 1


\* C4: vblank is raised exactly once per frame, by the clock that ends the
\* HBlank of line 143 (clock 65664 of the frame) and by no other, whatever
\* the chunking and also while a DMA is in progress.
C4_VblankOncePerFrame ==
    /\ log.vblankTotal = (log.clocks + (FrameClocks - VisibleClocks)) \div FrameClocks
    /\ (log.vblank > 0 => log.vblank = 1 /\ log.op = "cycle")
    /\ (log.vblankTotal > 0 => HasBit(intr.if, irq_vblank))

C4_Witness ==
    /\ log.op = "cycle"
    /\ log.vblank = 1
    /\ ppu.dmaInProgress
    /\ ppu.mode = vblank /\ ppu.scanline = 144

\* C39: in every PPU state between two calls LY is in 0..153, the clock in
\* mode is below the duration of the mode (80, 172, 204, 4560), the mode is
\* VBlank iff LY >= 144, and the lines rendered, the last one and the
\* highest one since construction, are within 0..143, so that the 160
\* framebuffer indices written for a line are within 0..160*144-1.
C39_PpuStateInRange ==
    /\ ppu.scanline \in 0..153
    /\ ppu.clockInMode >= 0
    /\ ppu.clockInMode < (CASE ppu.mode = oamScan -> 80
                            [] ppu.mode = draw -> 172
                            [] ppu.mode = hblank -> 204
                            [] ppu.mode = vblank -> 4560)
    /\ (ppu.mode = vblank) = (ppu.scanline >= 144)
    /\ \A line \in {ppu.renderedLine, log.renderedMax} :
          \/ line = -1
          \/ /\ line \in 0..143
             /\ 160 * line >= 0
             /\ 160 * line + 159 <= 160 * 144 - 1

\* 457 clocks into VBlank: LY is 145 and the line rendered last is 143
C39_Witness ==
    /\ ppu.mode = vblank /\ ppu.scanline = 145 /\ ppu.clockInMode = 457
    /\ ppu.renderedLine = 143 /\ log.renderedMax = 143
    /\ log.clocks = 66121

(***************************************************************************)
(* SpecStat: the STAT line.  cycle() is called with chunks that hold at    *)
(* most one change of mode or LY; longer chunks are delivered only while   *)
(* no STAT source is selected and the line is low.  STAT, LYC and LCDC    *)
(* are written in between.                                                 *)
(***************************************************************************)
StatChunks == {4, 80, 172, 204, 4560, 65660}
StatValues == {0, 8, 16, 32, 64, 40}
LycValues == {1, 144}

InitStat == InitWith(<<>>)

\* clocks until the next change of mode or LY
ToNextChange ==
    IF ppu.mode = vblank THEN 456 - (ppu.clockInMode % 456)
    ELSE ModeClocks(ppu.mode) - ppu.clockInMode

CycleS ==
    \E n \in StatChunks :
        /\ log.calls < MaxCycleCalls
        /\ n <= ToNextChange \/ (ppu.reg[reg_stat] = 0 /\ ~ppu.stat)
        /\ Commit(Counted(cycle(M("cycle"), n), "calls"))

StatWriteS ==
    \E v \in StatValues :
        /\ log.writes < MaxRegWrites
        /\ Commit(Counted(busWrite(M("statWrite"), 65344 + reg_stat, v), "writes"))

LycWriteS ==
    \E v \in LycValues :
        /\ log.writes < MaxRegWrites
        /\ Commit(Counted(busWrite(M("lycWrite"), 65344 + reg_lyc, v), "writes"))

LcdcWriteS ==
    \E v \in {0, lcdc_enable} :
        /\ log.writes < MaxRegWrites
        /\ Commit(Counted(busWrite(M("lcdcWrite"), 65344 + reg_lcdc, v), "writes"))

NextStat == CycleS \/ StatWriteS \/ LycWriteS \/ LcdcWriteS

SpecStat == InitStat /\ [][NextStat]_vars

\* the STAT condition of the current mode, LY and registers
StatLine == StatCondition([ppu |-> ppu])

\* C6: a stat interrupt is raised only when the latched STAT line goes from
\* low to high; none while the line stays high, none while the LCD is off.
C6_StatOnlyOnRisingEdge ==
    log.stat > 0 =>
        /\ log.stat = 1
        /\ ~log.statBefore
        /\ ppu.stat
        /\ HasBit(ppu.reg[reg_lcdc], lcdc_enable)
        /\ HasBit(intr.if, irq_stat)

C6_Witness ==
    /\ log.op = "cycle"
    /\ log.stat = 1
    /\ ~log.statBefore /\ ppu.stat
    /\ ppu.mode = vblank


(***************************************************************************)
(* SpecStatDma: the STAT line while an OAM DMA runs.  A STAT source is     *)
(* selected, a DMA is started, and cycle() is called with chunks that hold *)
(* at most one change of mode or LY.                                       *)
(***************************************************************************)
StatDmaChunks == {4, 80, 172, 204}

CycleSD ==
    \E n \in StatDmaChunks :
        /\ log.calls < MaxCycleCalls
        /\ n <= ToNextChange
        /\ Commit(Counted(cycle(M("cycle"), n), "calls"))

StatWriteSD ==
    \E v \in {8, 32} :
        /\ log.writes < MaxRegWrites
        /\ Commit(Counted(busWrite(M("statWrite"), 65344 + reg_stat, v), "writes"))

DmaWriteSD == DmaWrite(1)

NextStatDma == CycleSD \/ StatWriteSD \/ DmaWriteSD

SpecStatDma == InitStat /\ [][NextStatDma]_vars

\* C5: a mode change, LY change or STAT/LYC write that makes the STAT
\* condition true when it was false just before raises a stat interrupt at
\* that change, also while an OAM DMA is in progress.
C5_StatRaisedOnEveryRisingCondition ==
    [][(log'.op \in {"cycle", "statWrite", "lycWrite"} /\ ~StatLine /\ StatLine')
            => log'.stat >= 1]_vars



(***************************************************************************)
(* SpecDma: OAM DMA.  The DMA register is written at the start of a mode   *)
(* with one of several source pages, clocks are delivered in chunks, the   *)
(* LCD is switched off and on, and the machine is reset.                   *)
(***************************************************************************)
DmaChunks == {8, 160, 632}
DmaValues == {1, 128, 224, 225}

\* memory behind the bus: a few bytes in the pages 0x00, 0x01, 0xC0, 0xE0, 0xE1
DmaImage ==
    [a \in {0, 159, 256, 415, 49157, 57344, 57503, 57601} |->
        CASE a = 0 -> 17 [] a = 159 -> 34 [] a = 256 -> 51 [] a = 415 -> 68
          [] a = 49157 -> 85 [] a = 57344 -> 102 [] a = 57503 -> 119 [] a = 57601 -> 136]

InitDma == InitWith(DmaImage)

CycleD ==
    \E n \in DmaChunks :
        /\ log.clocks + n <= MaxDmaWindow
        /\ Commit(cycle(M("cycle"), n))

DmaWriteD ==
    \E v \in DmaValues :
        /\ ppu.clockInMode = 0
        /\ DmaWrite(v)

LcdcWriteD ==
    \E v \in {0, lcdc_enable} :
        /\ log.writes < MaxLcdWrites
        /\ Commit(Counted(busWrite(M("lcdcWrite"), 65344 + reg_lcdc, v), "writes"))

ResetD == log.dmaStarts > 0 /\ log.op # "reset" /\ Reset

NextDma == CycleD \/ DmaWriteD \/ LcdcWriteD \/ ResetD

SpecDma == InitDma /\ [][NextDma]_vars

\* C7: the transfer completes (bus unlocked, DMA-in-progress cleared) when
\* exactly 640 clocks have been delivered since the write of the DMA
\* register, and the bus is locked for those 640 clocks and no longer.
C7_DmaTakes640Clocks ==
    log.sinceDma >= 0 =>
        IF log.sinceDma < DmaClocks
        THEN ppu.dmaInProgress /\ bus.locked
        ELSE ~ppu.dmaInProgress /\ ~bus.locked

\* the byte a read by the PPU returns at the moment the transfer completed
ByteAtCompletion(address) ==
    ppuBusRead([ppu |-> [ppu EXCEPT !.mode = log.dmaMode], bus |-> bus], address)

\* C8 as stated: OAM is untouched while the transfer runs, and at completion
\* OAM[i] is the byte at (v << 8) + i for every i in 0..159.
C8_OamFromValueShifted ==
    [][(ppu.dmaInProgress /\ log'.op = "cycle") =>
            IF ppu'.dmaInProgress
            THEN ppu'.oam = ppu.oam
            ELSE \A i \in 0..(OamSize - 1) :
                    ByteAt(ppu'.oam, i) = ByteAtCompletion(ppu.reg[reg_dma] * 256 + i)']_vars

\* C8 amended: OAM is untouched while the transfer runs, and at completion
\* OAM[i] is the byte read at ((v mod 0xE0) << 8) + i for every i in 0..159.
C8_OamFromValueBelowE0 ==
    [][(ppu.dmaInProgress /\ log'.op = "cycle") =>
            IF ppu'.dmaInProgress
            THEN ppu'.oam = ppu.oam
            ELSE \A i \in 0..(OamSize - 1) :
                    ByteAt(ppu'.oam, i)
                        = ByteAtCompletion((ppu.reg[reg_dma] % 224) * 256 + i)']_vars

C8_Witness ==
    /\ log.op = "cycle"
    /\ log.dmaDone = 1
    /\ ppu.reg[reg_dma] = 225
    /\ ByteAt(ppu.oam, 0) = 51 /\ ByteAt(ppu.oam, 159) = 68

\* C10: a reset during an OAM DMA discards it: no DMA is in progress, OAM
\* is not overwritten by the discarded transfer afterwards, and the bus is
\* not left locked.
C10_ResetDiscardsDma ==
    log.sinceDma = -1 =>
        /\ ~ppu.dmaInProgress
        /\ ppu.oam = <<>>
        /\ ~bus.locked


(***************************************************************************)
(* LiveDma: SpecDma without reset, where clocks keep being delivered:      *)
(* cycle() is weakly fair.  A DMA is started only when the clock window    *)
(* leaves room for its 641 clocks.                                         *)
(***************************************************************************)
CycleL == CycleD

DmaWriteL ==
    \E v \in {1, 128} :
        /\ ppu.clockInMode = 0
        /\ log.clocks + DmaClocks + 8 <= MaxDmaWindow
        /\ DmaWrite(v)

LcdcWriteL == LcdcWriteD

NextLive == CycleL \/ DmaWriteL \/ LcdcWriteL

LiveDma == InitDma /\ [][NextLive]_vars /\ WF_vars(CycleL)

\* C9: a DMA that has been started completes as long as clocks keep being
\* delivered through cycle(), with the LCD enabled or disabled: eventually
\* no DMA is in progress and the bus is unlocked.
C9_DmaCompletes == ppu.dmaInProgress ~> (~ppu.dmaInProgress /\ ~bus.locked)

C9_Witness ==
    /\ log.op = "cycle"
    /\ log.dmaDone = 1
    /\ ~HasBit(ppu.reg[reg_lcdc], lcdc_enable)
    /\ ~ppu.dmaInProgress /\ ~bus.locked

(***************************************************************************)
(* SpecLcd: access of the CPU to VRAM and OAM and the LCD enable.  Clocks  *)
(* are delivered by whole modes, lines and frames; in between LCDC bit 7   *)
(* is written and bytes are written to VRAM and OAM.  The bus is read      *)
(* between the calls.                                                      *)
(***************************************************************************)
LcdChunks == {80, 204, 65664, 70224}
VramProbes == {32768, 40959}
OamProbes == {65024, 65183}
ProbeValues == {90}

InitLcd == InitWith(<<>>)

CycleA ==
    \E n \in LcdChunks :
        /\ log.calls < MaxAccessCalls
        /\ Commit(Counted(cycle(M("cycle"), n), "calls"))

\* bus.write(0xFF40, value); the log keeps the clock count and the frame
\* index at which the LCD was switched on
LcdcWriteA ==
    \E v \in {0, lcdc_enable} :
        /\ log.writes < MaxAccessWrites
        /\ \E m1 \in {busWrite(M("lcdcWrite"), 65344 + reg_lcdc, v)} :
              LET turnedOn == ~HasBit(ppu.reg[reg_lcdc], lcdc_enable) /\ LcdEnabled(m1)
              IN  Commit(Counted([m1 EXCEPT !.log.enabledAt = IF turnedOn THEN m1.log.clocks ELSE @,
                                            !.log.frameAt = IF turnedOn THEN m1.ppu.frame ELSE @],
                                 "writes"))

\* bus.write(address, value) for an address of VRAM
VramWriteA ==
    \E a \in VramProbes, v \in ProbeValues :
        /\ log.writes < MaxAccessWrites
        /\ Commit(Counted([busWrite(M("vramWrite"), a, v)
                               EXCEPT !.log.address = a, !.log.value = v], "writes"))

\* bus.write(address, value) for an address of OAM
OamWriteA ==
    \E a \in OamProbes, v \in ProbeValues :
        /\ log.writes < MaxAccessWrites
        /\ Commit(Counted([busWrite(M("oamWrite"), a, v)
                               EXCEPT !.log.address = a, !.log.value = v], "writes"))

NextLcd == CycleA \/ LcdcWriteA \/ VramWriteA \/ OamWriteA

SpecLcd == InitLcd /\ [][NextLcd]_vars

\* the machine as the bus handlers see it between two calls
Here == [ppu |-> ppu, intr |-> intr, bus |-> bus]

LcdOn == HasBit(ppu.reg[reg_lcdc], lcdc_enable)

\* what bus.read returns for the probed addresses of VRAM and OAM
VramSeen == [a \in VramProbes |-> busRead(Here, a)]
OamSeen == [a \in OamProbes |-> busRead(Here, a)]

\* the bytes stored at the probed addresses
VramStored == [a \in VramProbes |-> ByteAt(ppu.vram, a - 32768)]
OamStored == [a \in OamProbes |-> ByteAt(ppu.oam, a - 65024)]

\* C11: with the LCD enabled VRAM reads return 0xFF and VRAM writes are
\* dropped in Draw, OAM reads return 0xFF and OAM writes are dropped in
\* Draw and OAM-scan; in every other mode, and in every mode with the LCD
\* disabled, a read returns the stored byte and a write is stored.
C11_AccessByMode ==
    [][/\ \A a \in VramProbes :
            VramSeen'[a] = IF LcdOn' /\ ppu'.mode = draw THEN 255 ELSE VramStored'[a]
       /\ \A a \in OamProbes :
            OamSeen'[a] = IF LcdOn' /\ ppu'.mode \in {draw, oamScan} THEN 255
                          ELSE OamStored'[a]
       /\ log'.op = "vramWrite" =>
            \A a \in VramProbes :
                VramStored'[a] = IF a = log'.address /\ ~(LcdOn /\ ppu.mode = draw)
                                 THEN log'.value ELSE VramStored[a]
       /\ log'.op = "oamWrite" =>
            \A a \in OamProbes :
                OamStored'[a] = IF a = log'.address /\ ~(LcdOn /\ ppu.mode \in {draw, oamScan})
                                THEN log'.value ELSE OamStored[a]]_vars

C11_Witness ==
    /\ log.op = "oamWrite"
    /\ LcdOn /\ ppu.mode = oamScan
    /\ log.address = 65183 /\ log.value = 90
    /\ OamStored[65183] = 0 /\ OamStored[65024] = 90
    /\ OamSeen[65183] = 255

\* C12: clearing LCDC bit 7 halts the state machine (clocks delivered
\* change neither mode, LY nor clock-in-mode); while the LCD is disabled a
\* read of LY returns 0 and the mode bits of STAT read 0 (HBlank); when
\* bit 7 is set again the mode is OAM-scan.
C12_DisabledLcdReadsBlank ==
    [][/\ (~LcdOn /\ log'.op = "cycle") =>
            /\ ppu'.mode = ppu.mode
            /\ ppu'.scanline = ppu.scanline
            /\ ppu'.clockInMode = ppu.clockInMode
       /\ ~LcdOn' =>
            /\ busRead(Here, 65344 + reg_ly)' = 0
            /\ busRead(Here, 65344 + reg_stat)' % 4 = hblank
       /\ (~LcdOn /\ LcdOn') => ppu'.mode = oamScan]_vars

\* ends of VBlank passed since the LCD was switched on: the state machine
\* ends a VBlank at every multiple of 70224 delivered clocks
EndsSinceEnabled == (log.clocks \div FrameClocks) - (log.enabledAt \div FrameClocks)

\* C13: after the LCD was disabled and enabled again, the first end of
\* VBlank leaves the frame index as it is (no buffer swap) and each
\* following end of VBlank increments it.
C13_OneFrameSkipped ==
    (log.enabledAt >= 0 /\ LcdOn) =>
        ppu.frame = log.frameAt + (IF EndsSinceEnabled = 0 THEN 0 ELSE EndsSinceEnabled - 1)

C13_Witness ==
    /\ log.op = "cycle"
    /\ log.enabledAt >= 0 /\ LcdOn
    /\ EndsSinceEnabled = 2
    /\ ppu.frame = log.frameAt + 1

(***************************************************************************)
(* SpecMbc: an MBC3 cartridge after construction and reset().  The bus     *)
(* writes to the RAM enable, the ROM bank select, the RAM bank select, the *)
(* latch and the RAM window, RAM is cleared by the host, and the cartridge *)
(* is reset.                                                               *)
(* The cartridges are a 4-bank ROM with 2 banks of battery RAM and a       *)
(* 2-bank ROM with timer and battery and no RAM.                           *)
(***************************************************************************)
\* seconds of the wall clock at construction
Epoch == 1000000

\* a ROM image whose first byte of bank b is b + 1
RomImage(romBanks) == [a \in {b * RomBankSize : b \in 0..(romBanks - 1)} |-> (a \div RomBankSize) + 1]

\* the machine with a cartridge constructed and reset at the given time
Plugged(type, romBanks, ramBanks, time) ==
    cartReset([Booted(<<>>) EXCEPT
                   !.cart = CartridgeMbc3(type, RomImage(romBanks), romBanks, ramBanks, time),
                   !.now = time],
              NoSave)

InitPlugged(type, romBanks, ramBanks) ==
    LET m == Plugged(type, romBanks, ramBanks, Epoch) IN
    /\ type \in Mbc3Types
    /\ Accepted(romBanks, ramBanks)
    /\ ppu = m.ppu
    /\ intr = m.intr
    /\ bus = m.bus
    /\ clock = m.clock
    /\ cpu = m.cpu
    /\ cart = m.cart
    /\ queue = m.queue
    /\ now = m.now
    /\ log = m.log

InitMbc ==
    \/ InitPlugged("mbc3_ram_battery", 4, 2)
    \/ InitPlugged("mbc3_timer_battery", 2, 0)

\* the addresses written and the values written to each
MbcAddresses == {0, 8192, 16384, 24576, 40960, 45056}

MbcValues(address) ==
    CASE address = 0 -> {0, 10, 26}
      [] address = 8192 -> {0, 2, 4, 5}
      [] address = 16384 -> {0, 1, 8}
      [] address = 24576 -> {0, 1}
      [] OTHER -> {90, 60}

\* bus.write(address, value) for an address the cartridge maps; the log
\* keeps the value of the last write to the latch range since reset
Written(m, address, value) ==
    [m EXCEPT !.log.address = address, !.log.value = value,
              !.log.lastLatchWrite = IF address >= 24576 /\ address < 32768 THEN value ELSE @]

CartWriteM ==
    \E a \in MbcAddresses :
        \E v \in MbcValues(a) :
            /\ log.writes < MaxCartWrites
            /\ Commit(Counted(Written(cartWrite(M("cartWrite"), a, v), a, v), "writes"))

\* cartridge.clearRam()
ClearRamM ==
    /\ log.op = "cartWrite"
    /\ Commit(clearRam(M("clearRam")))

\* cartridge.reset()
ResetM ==
    /\ log.op = "cartWrite"
    /\ Commit([cartReset(M("reset"), NoSave) EXCEPT !.log.lastLatchWrite = -1])

NextMbc == CartWriteM \/ ClearRamM \/ ResetM

SpecMbc == InitMbc /\ [][NextMbc]_vars

\* the machine as the handlers of the cartridge see it between two calls
Slot == [cart |-> cart, now |-> now, log |-> log]

\* C14: after any sequence of writes to 0x2000..0x3FFF the bank mapped at
\* 0x4000..0x7FFF has an index in 1..N-1, the written value modulo N with 0
\* mapped to 1: bank 0 is never visible in the window.
C14_RomBankNeverZero ==
    /\ cart.romBankIndex \in 1..(cart.romBanks - 1)
    /\ cartRead(Slot, 16384) # cartRead(Slot, 0)
    /\ (log.op = "cartWrite" /\ log.address \in 8192..16383) =>
            LET bank == IF log.value % cart.romBanks = 0 THEN 1
                        ELSE log.value % cart.romBanks
            IN  /\ cart.romBankIndex = bank
                /\ cartRead(Slot, 16384) = bank + 1

RamProbes == {40960, 45056}

\* what bus.read returns for the probed addresses of the RAM window
RamSeen == [a \in RamProbes |-> cartRead(Slot, a)]

\* the RTC fields and the reference of the running clock
RtcState ==
    <<cart.secondsLatched, cart.minutesLatched, cart.hoursLatched, cart.daysLatched,
      cart.secondsCurrent, cart.minutesCurrent, cart.hoursCurrent, cart.daysCurrent,
      cart.halt, cart.referenceTimestamp>>

\* C15: for every accepted cartridge, timer cartridges without RAM
\* included, a write of v to 0x0000..0x1FFF enables the window
\* 0xA000..0xBFFF iff (v & 0x0F) = 0x0A; while it is not enabled reads of
\* the window return 0xFF and writes change neither RAM nor RTC state.
C15_RamEnableByLowNibble ==
    [][/\ (log'.op = "cartWrite" /\ log'.address \in 0..8191) =>
            cart'.ramEnable = (BitAnd(log'.value, 15) = 10)
       /\ ~cart'.ramEnable => \A a \in RamProbes : RamSeen'[a] = 255
       /\ (log'.op = "cartWrite" /\ log'.address \in 40960..49151 /\ ~cart.ramEnable) =>
            /\ cart'.ram = cart.ram
            /\ RtcState' = RtcState]_vars

\* C16: with RAM enabled and a RAM bank selected, a byte written to an
\* address of 0xA000..0xBFFF is what a read of that address returns, and a
\* read keeps returning it while the same bank stays selected and RAM stays
\* enabled, until the address is written again (clearRam writes them all).
C16_RamReadsLastWrite ==
    [][/\ (log'.op = "cartWrite" /\ log'.address \in RamProbes
            /\ cart.ramEnable /\ cart.registerSelect = 0) =>
            RamSeen'[log'.address] = log'.value
       /\ \A a \in RamProbes :
            (/\ cart.ramEnable /\ cart'.ramEnable
             /\ cart.registerSelect = 0 /\ cart'.registerSelect = 0
             /\ cart'.ramBankIndex = cart.ramBankIndex
             /\ ~(log'.op = "cartWrite" /\ log'.address = a)
             /\ log'.op # "clearRam") =>
                RamSeen'[a] = RamSeen[a]]_vars

C16_Witness ==
    /\ log.op = "cartWrite" /\ log.address = 8192
    /\ cart.ramEnable /\ cart.registerSelect = 0 /\ cart.ramBankIndex = 1
    /\ RamSeen[45056] = 60
    /\ RamSeen[40960] = 0

\* the addresses of bank 0 that are read
Bank0Probes == {0, 1, 16383}

\* C40: a write to the control ranges 0x0000..0x7FFF changes no byte of ROM
\* or RAM; a read of 0x0000..0x3FFF returns the byte of the ROM image at the
\* address whatever banks are selected; and a write to the RAM window
\* changes no byte of a physical RAM bank other than the selected one.
C40_ControlWritesKeepMemory ==
    [][/\ (log'.op = "cartWrite" /\ log'.address < 32768) =>
            /\ cart'.ram = cart.ram
            /\ cart'.image = cart.image
       /\ \A a \in Bank0Probes :
            cartRead(Slot, a)' = ByteAt(RomImage(cart.romBanks), a)
       /\ (log'.op = "cartWrite" /\ log'.address >= 40960) =>
            \A k \in (DOMAIN cart.ram) \cup (DOMAIN cart'.ram) :
                (k \div RamBankSize # cart.ramBankIndex) =>
                    ByteAt(cart'.ram, k) = ByteAt(cart.ram, k)]_vars

\* a byte written to bank 1 at 0xA000 after another was written to bank 0
\* at the same address, with ROM bank 1 mapped
C40_Witness ==
    /\ log.op = "cartWrite" /\ log.address = 40960 /\ log.value = 90
    /\ cart.ramEnable /\ cart.registerSelect = 0 /\ cart.ramBankIndex = 1
    /\ ByteAt(cart.ram, RamBankSize) = 90
    /\ ByteAt(cart.ram, 0) = 60
    /\ cartRead(Slot, 0) = 1

(***************************************************************************)
(* SpecRtc: the real-time clock of an MBC3 cartridge with timer, RAM and   *)
(* battery.  The wall clock of the host advances, the bus writes to the    *)
(* RAM enable, the register select, the latch and the window, the host     *)
(* prints the state, and the cartridge is reset.                           *)
(***************************************************************************)
TickSeconds == {5, 7200}

InitRtc == InitPlugged("mbc3_timer_ram_battery", 2, 1)

RtcAddresses == {0, 16384, 24576, 40960}

RtcValues(address) ==
    CASE address = 0 -> {10}
      [] address = 16384 -> {8, 10, 12}
      [] address = 24576 -> {0, 1}
      [] OTHER -> {5, 65}

\* time passes on the host
Tick ==
    \E d \in TickSeconds :
        /\ log.calls < MaxTicks
        /\ Commit(Counted([M("tick") EXCEPT !.now = @ + d], "calls"))

CartWriteR ==
    \E a \in RtcAddresses :
        \E v \in RtcValues(a) :
            /\ log.writes < MaxRtcWrites
            /\ Commit(Counted(Written(cartWrite(M("cartWrite"), a, v), a, v), "writes"))

\* cartridge.printState()
PrintStateR ==
    /\ log.op # "printState"
    /\ Commit(printState(M("printState")))

ResetR ==
    /\ log.op = "cartWrite"
    /\ Commit([cartReset(M("reset"), NoSave) EXCEPT !.log.lastLatchWrite = -1])

NextRtc == Tick \/ CartWriteR \/ PrintStateR \/ ResetR

SpecRtc == InitRtc /\ [][NextRtc]_vars

\* the running RTC fields: what materializeClock gives now
Running == materializeClock(Slot).cart

Latched == <<cart.secondsLatched, cart.minutesLatched, cart.hoursLatched, cart.daysLatched>>

\* C17: when the latch is triggered the latched seconds, minutes, hours and
\* days become the running fields of that moment, and reads of the
\* registers 0x08..0x0B return them.
C17_LatchCopiesRunning ==
    [][(log'.op = "cartWrite" /\ log'.address \in 24576..32767
            /\ log'.value = 1 /\ log.lastLatchWrite = 0) =>
            /\ Latched' = <<Running.secondsCurrent, Running.minutesCurrent,
                            Running.hoursCurrent, Running.daysCurrent>>'
            /\ readRegister(Slot, 8)' = Running'.secondsCurrent
            /\ readRegister(Slot, 9)' = Running'.minutesCurrent
            /\ readRegister(Slot, 10)' = Running'.hoursCurrent
            /\ readRegister(Slot, 11)' = Running'.daysCurrent % 256]_vars

\* C18: a write to 0x6000..0x7FFF triggers the latch exactly when the value
\* is 1 and the preceding write to the range wrote 0; every other write to
\* the range, the first after reset and a repeated 1 included, leaves the
\* latched fields as they are.
C18_LatchOnZeroThenOne ==
    [][(log'.op = "cartWrite" /\ log'.address \in 24576..32767) =>
            IF log'.value = 1 /\ log.lastLatchWrite = 0
            THEN log'.latch = 1
            ELSE log'.latch = 0 /\ Latched' = Latched]_vars

C18_Witness ==
    /\ log.op = "cartWrite" /\ log.address = 24576
    /\ log.value = 1 /\ log.latch = 1
    /\ cart.lastLatch = 1
    /\ now > Epoch

\* the value a register keeps of a written byte
Reduced(register, value) ==
    CASE register = 8 -> value % 60
      [] register = 9 -> value % 60
      [] register = 10 -> value % 24
      [] register = 11 -> value
      [] register = 12 -> BitAnd(value, 65)

\* C19: with RAM enabled and an RTC register selected, a write to the
\* window followed by a read of it returns the written value reduced to
\* the range of the field.
C19_RegisterReadsBack ==
    [][(log'.op = "cartWrite" /\ log'.address \in 40960..49151
            /\ cart.ramEnable /\ cart.registerSelect \in 8..12) =>
            cartRead(Slot, log.address)' = Reduced(cart.registerSelect, log'.value)]_vars

\* seconds elapsed on the running clock
Elapsed == IF now - cart.referenceTimestamp < 0 THEN 0 ELSE now - cart.referenceTimestamp

\* C20: the materialised fields are the split of the elapsed seconds:
\* seconds and minutes in 0..59, hours in 0..23, and
\* days*86400 + hours*3600 + minutes*60 + seconds the elapsed seconds.
C20_FieldsSplitElapsed ==
    log.op = "printState" =>
        /\ cart.secondsCurrent \in 0..59
        /\ cart.minutesCurrent \in 0..59
        /\ cart.hoursCurrent \in 0..23
        /\ cart.daysCurrent * 86400 + cart.hoursCurrent * 3600
               + cart.minutesCurrent * 60 + cart.secondsCurrent = Elapsed

(***************************************************************************)
(* SpecSave: the battery save of an MBC3 cartridge.  The host takes the    *)
(* save with getRam(), the bus writes to RAM and to the RTC registers, the *)
(* wall clock advances, RAM is cleared, and the cartridge is reset with    *)
(* the save taken before, with save data of another length, or with none.  *)
(* The cartridges are a 2-bank ROM with timer, battery and 1 bank of RAM   *)
(* and a 2-bank ROM with 1 bank of RAM and no battery.                     *)
(***************************************************************************)
InitSave ==
    \/ InitPlugged("mbc3_timer_ram_battery", 2, 1)
    \/ InitPlugged("mbc3_ram", 2, 1)

SaveAddresses == {0, 16384, 40960}

SaveValues(address) ==
    CASE address = 0 -> {10}
      [] address = 16384 -> {0, 11}
      [] OTHER -> {90, 255}

CartWriteV ==
    \E a \in SaveAddresses :
        \E v \in SaveValues(a) :
            /\ log.writes < MaxSaveWrites
            /\ Commit(Counted(Written(cartWrite(M("cartWrite"), a, v), a, v), "writes"))

\* cartridge.getRam(): the host keeps the save; the log keeps the RAM and
\* the reference timestamp of that moment
SaveV ==
    /\ log.op = "cartWrite"
    /\ Commit([M("getRam") EXCEPT !.log.save = getRam(M("getRam")),
                                  !.log.savedRam = cart.ram,
                                  !.log.savedRef = cart.referenceTimestamp])

\* cartridge.reset(savedRam) with the save the host kept
RestoreV ==
    /\ log.op \in {"cartWrite", "clearRam"}
    /\ Commit([cartReset(M("restore"), log.save)
                  EXCEPT !.log.ramBefore = cart.ram,
                         !.log.refBefore = cart.referenceTimestamp])

\* save data of a length that is not the RAM and four bytes: nothing, the
\* RAM alone, a byte long
WrongLengths == {0, RamBankSize, RamBankSize + 5}

\* cartridge.reset(savedRam) with save data of another length, its first
\* byte 0x77
ResetWrongV ==
    \E n \in WrongLengths :
        /\ log.op = "cartWrite"
        /\ Commit([cartReset(M("resetWrong"),
                             [length |-> n, bytes |-> IF n = 0 THEN <<>> ELSE (0 :> 119)])
                      EXCEPT !.log.ramBefore = cart.ram])

ClearRamV ==
    /\ log.op = "cartWrite"
    /\ Commit(clearRam(M("clearRam")))

\* time passes on the host after the save was taken
TickV == log.op = "getRam" /\ Tick

NextSave == CartWriteV \/ TickV \/ SaveV \/ RestoreV \/ ResetWrongV \/ ClearRamV

SpecSave == InitSave /\ [][NextSave]_vars

\* two sparse byte arrays hold the same bytes
SameBytes(x, y) == \A a \in (DOMAIN x) \cup (DOMAIN y) : ByteAt(x, a) = ByteAt(y, a)

\* C21: for a battery-backed cartridge, reset(savedRam) with the bytes that
\* getRam produced leaves the RAM and the reference timestamp as they were
\* when the save was taken, whatever was written in between.
C21_SaveRoundTrip ==
    (log.op = "restore" /\ cart.type \in BatteryTypes /\ log.save # NoSave) =>
        /\ SameBytes(cart.ram, log.savedRam)
        /\ cart.referenceTimestamp = log.savedRef

\* a restore that brings back a byte of RAM cleared after the save and a
\* reference timestamp before 1970 that an RTC write changed after the save
C21_Witness ==
    /\ log.op = "restore" /\ cart.type \in BatteryTypes /\ log.save # NoSave
    /\ ByteAt(log.ramBefore, 0) = 0 /\ ByteAt(cart.ram, 0) = 90
    /\ cart.referenceTimestamp < 0
    /\ log.refBefore # cart.referenceTimestamp
    /\ log.save.length = RamBankSize + 4
    /\ ByteAt(log.save.bytes, RamBankSize + 3) = 255

\* C22: after reset with save data whose length is not the RAM and four
\* bytes every RAM byte is 0, whatever the RAM held before.
C22_WrongLengthZeroesRam ==
    log.op = "resetWrong" => SameBytes(cart.ram, <<>>)

(***************************************************************************)
(* SpecClock: the clock after reset.  The CPU calls increment(), a         *)
(* component stalls the CPU with pauseCpu() between two increments or      *)
(* while the clock fans out, KEY1 is written, STOP calls notifyStop(), the *)
(* host resets the cycle counter, and the machine is reset.                *)
(***************************************************************************)
InitClock == InitWith(<<>>)

\* the increments offered: increment(3) with no stall requested, and
\* increment(1) with a stall of 2 requested during its fan-out and a stall
\* of 1 requested while that one is drained
Increments == {[n |-> 3, stalls |-> <<>>], [n |-> 1, stalls |-> <<2, 1>>]}
StallCycles == {2}

Key1Values == {1, 254}

\* clock.increment(n)
IncrementC ==
    \E i \in Increments :
        /\ log.calls < MaxIncrements
        /\ Commit(Counted(increment([M("increment") EXCEPT !.log.stalls = i.stalls,
                                                           !.log.n = i.n], i.n),
                          "calls"))

\* clock.pauseCpu(k) between two increments
PauseCpuC ==
    \E k \in StallCycles :
        /\ log.writes < MaxPauses
        /\ log.op \in {"notifyStop", "increment"}
        /\ Commit(Counted(pauseCpu(M("pauseCpu"), k), "writes"))

\* bus.write(KEY1, value)
Key1WriteC ==
    \E v \in Key1Values :
        /\ log.op \in {"boot", "increment"}
        /\ Commit([key1Write(M("key1Write"), v) EXCEPT !.log.value = v])

\* clock.notifyStop()
NotifyStopC ==
    /\ log.stops < MaxStops
    /\ log.op \in {"key1Write", "increment"}
    /\ Commit([notifyStop(M("notifyStop")) EXCEPT !.log.stops = @ + 1])

\* clock.resetCpuCycles()
ResetCpuCyclesC ==
    /\ log.op = "increment" /\ log.queued > 0
    /\ Commit(resetCpuCycles(M("resetCpuCycles")))

\* reset of the machine
ResetC ==
    /\ log.op = "notifyStop" /\ clock.doubleSpeed
    /\ Commit([cpuReset(clockReset(ppuReset(intrReset(M("reset")))))
                  EXCEPT !.log.queued = 0, !.log.cpuSince = 0, !.log.apuSince = 0,
                         !.log.resets = @ + 1])

NextClock ==
    IncrementC \/ PauseCpuC \/ Key1WriteC \/ NotifyStopC \/ ResetCpuCyclesC \/ ResetC

SpecClock == InitClock /\ [][NextClock]_vars

\* C23: every increment fans out at the ratio of the speed: as many serial
\* cycles as timer cycles, 4 PPU clocks and 1 APU cycle a timer cycle in
\* single speed, 2 PPU clocks a timer cycle in double speed; with no stall
\* queued or requested increment(n) delivers n timer cycles.
C23_FanOutBySpeed ==
    log.op = "increment" =>
        /\ log.serial = log.timer
        /\ log.ppu = (IF clock.doubleSpeed THEN 2 ELSE 4) * log.timer
        /\ ~clock.doubleSpeed => log.apu = log.timer
        /\ log.queued = 0 => log.timer = log.n

\* increment(3) in double speed with nothing queued
C23_Witness ==
    /\ log.op = "increment" /\ clock.doubleSpeed
    /\ log.n = 3 /\ log.queued = 0
    /\ log.timer = 3 /\ log.ppu = 6

\* C24: in double speed the divider accumulator is 0 or 1 between calls,
\* and since the switch to double speed twice the APU cycles delivered plus
\* the accumulator is the number of CPU cycles fanned out.
C24_HalfCyclesKept ==
    clock.doubleSpeed =>
        /\ clock.dividerAccCycles \in {0, 1}
        /\ 2 * log.apuSince + clock.dividerAccCycles = log.cpuSince

\* ten CPU cycles fanned out in double speed in pieces of 3, 4, 2 and 1:
\* the half cycle kept after the first and the third piece is delivered
\* with the next
C24_Witness ==
    /\ clock.doubleSpeed /\ log.op = "increment" /\ log.n = 1
    /\ log.cpuSince = 10 /\ log.apuSince = 5 /\ clock.dividerAccCycles = 0

\* C25: when increment(n) returns the queue of extra CPU cycles is empty,
\* and the cycles fanned out are n and every cycle put on the queue
\* before or during the call.
C25_StallsDrained ==
    log.op = "increment" =>
        /\ clock.extraCpuCycles = 0
        /\ log.stalls = <<>>
        /\ log.timer = log.n + log.queued
        /\ log.serial = log.n + log.queued
        /\ log.ppu = (IF clock.doubleSpeed THEN 2 ELSE 4) * (log.n + log.queued)
        /\ ~clock.doubleSpeed => log.apu = log.n + log.queued

\* increment(1) in double speed after pauseCpu(2), with a stall of 2 requested
\* during the fan-out and a stall of 1 while that one is drained
C25_Witness ==
    /\ log.op = "increment" /\ clock.doubleSpeed
    /\ log.n = 1 /\ log.queued = 10 /\ log.timer = 11
    /\ clock.extraCpuCycles = 0

\* the clock as the handlers of KEY1 see it
ClockSlot == [clock |-> clock]

\* C26 as stated: the double-speed flag changes only in notifyStop with a
\* switch pending: that call toggles the flag, clears the pending bit and
\* the accumulator and fans out 130996 CPU cycles; notifyStop with no
\* switch pending changes nothing; a write to KEY1 changes only the pending
\* bit, to bit 0 of the value; a read of KEY1 has bits 1..6 set, bit 7 the
\* double-speed flag and bit 0 the pending bit.
C26_FlagChangesOnlyInStop ==
    [][/\ clock'.doubleSpeed # clock.doubleSpeed =>
            log'.op = "notifyStop" /\ clock.speedSwitchPending
       /\ (log'.op = "notifyStop" /\ clock.speedSwitchPending) =>
            /\ clock'.doubleSpeed = ~clock.doubleSpeed
            /\ ~clock'.speedSwitchPending
            /\ clock'.dividerAccCycles = 0
            /\ log'.timer = 130996 /\ log'.serial = 130996
            /\ log'.ppu = (IF clock'.doubleSpeed THEN 2 ELSE 4) * 130996
       /\ (log'.op = "notifyStop" /\ ~clock.speedSwitchPending) =>
            /\ clock' = clock /\ ppu' = ppu
            /\ log'.timer = 0 /\ log'.ppu = 0
       /\ log'.op = "key1Write" =>
            clock' = [clock EXCEPT !.speedSwitchPending = (log'.value % 2 = 1)]
       /\ BitAnd(key1Read(ClockSlot)', 126) = 126
       /\ key1Read(ClockSlot)' \in 0..255
       /\ HasBit(key1Read(ClockSlot)', 128) = clock'.doubleSpeed
       /\ HasBit(key1Read(ClockSlot)', 1) = clock'.speedSwitchPending]_vars

\* C26, amended: the double-speed flag changes only in notifyStop with a
\* switch pending and in reset(), which clears it together with the
\* pending bit; the notifyStop call toggles the flag, clears the pending
\* bit and the accumulator and fans out 130996 CPU cycles; notifyStop with
\* no switch pending changes nothing; a write to KEY1 changes only the
\* pending bit, to bit 0 of the value; a read of KEY1 has bits 1..6 set,
\* bit 7 the double-speed flag and bit 0 the pending bit.
C26_SpeedSwitch ==
    [][/\ clock'.doubleSpeed # clock.doubleSpeed =>
            \/ log'.op = "notifyStop" /\ clock.speedSwitchPending
            \/ log'.op = "reset"
       /\ log'.op = "reset" =>
            /\ ~clock'.doubleSpeed
            /\ ~clock'.speedSwitchPending
       /\ (log'.op = "notifyStop" /\ clock.speedSwitchPending) =>
            /\ clock'.doubleSpeed = ~clock.doubleSpeed
            /\ ~clock'.speedSwitchPending
            /\ clock'.dividerAccCycles = 0
            /\ log'.timer = 130996 /\ log'.serial = 130996
            /\ log'.ppu = (IF clock'.doubleSpeed THEN 2 ELSE 4) * 130996
       /\ (log'.op = "notifyStop" /\ ~clock.speedSwitchPending) =>
            /\ clock' = clock /\ ppu' = ppu
            /\ log'.timer = 0 /\ log'.ppu = 0
       /\ log'.op = "key1Write" =>
            clock' = [clock EXCEPT !.speedSwitchPending = (log'.value % 2 = 1)]
       /\ BitAnd(key1Read(ClockSlot)', 126) = 126
       /\ key1Read(ClockSlot)' \in 0..255
       /\ HasBit(key1Read(ClockSlot)', 128) = clock'.doubleSpeed
       /\ HasBit(key1Read(ClockSlot)', 1) = clock'.speedSwitchPending]_vars

\* notifyStop with a switch pending takes the clock to double speed again
\* after a reset in double speed had returned it to single speed
C26_Witness ==
    /\ log.op = "notifyStop" /\ log.stops = 2 /\ log.resets = 1
    /\ clock.doubleSpeed /\ log.timer = 130996 /\ log.ppu = 261992
    /\ log.cpuSince = 0 /\ clock.dividerAccCycles = 0
    /\ key1Read(ClockSlot) = 254

(***************************************************************************)
(* SpecExec: the CPU executing one instruction, as in the repository's CPU *)
(* tests: memory holds an opcode at 0x0100 followed by the bytes 0xFB and  *)
(* 0x12, or one of the two-byte codes of the prefixed instructions; the    *)
(* CPU is reset, the host assigns the 8-bit registers and F, then A alone  *)
(* or HL and the byte at HL, and step(1) is called.  Every opcode is       *)
(* offered.                                                                *)
(***************************************************************************)
Opcodes == 0..255

\* the bytes that follow the opcode
Operands == <<251, 18>>

\* the two-byte codes of the tests of the prefixed instructions:
\* RLC (HL), RES 0,A and SET 0,A
Prefixed == {<<203, 6>>, <<203, 135>>, <<203, 199>>}

Programs == {<<opcode>> \o Operands : opcode \in Opcodes} \cup Prefixed

\* the code of the test environment: memory.subarray(0x100).set(code)
Code(code) ==
    [a \in {255 + j : j \in {k \in 1..Len(code) : code[k] # 0}} |-> code[a - 255]]

InitExec == \E code \in Programs : InitWith(Code(code))

RegValues == {0, 1, 15, 16, 66, 128, 240, 255}
FlagValues == {0, 16, 224, 240}

\* the 8-bit registers other than F
Registers8 == {r8_a, r8_b, r8_c, r8_d, r8_e, r8_h, r8_l}

RECURSIVE SetAllR8(_, _, _)
SetAllR8(m, regs, value) ==
    IF regs = {} THEN m
    ELSE LET r == CHOOSE x \in regs : TRUE
         IN  SetAllR8(SetR8(m, r, value), regs \ {r}, value)

\* the host assigns cpu.state.r8: the value to every register, the flags to F
SetRegistersX ==
    \E v \in RegValues :
        \E f \in FlagValues :
            /\ log.op = "boot"
            /\ Commit(SetR8(SetAllR8(M("setRegisters"), Registers8, v), r8_f, f))

\* the host assigns cpu.state.r8[r8.a] alone
SetAX ==
    \E v \in RegValues :
        /\ log.op = "setRegisters"
        /\ Commit(SetR8(M("setA"), r8_a, v))

HlAddress == 8192
HlValues == {0, 37, 165}

\* the set-up of the RLC (HL) test: HL is 0x2000 and bus.write(0x2000, value)
SetHlX ==
    \E v \in HlValues :
        /\ log.op = "setRegisters"
        /\ ByteAt(bus.mem, 256) = 203
        /\ Commit(busWrite(SetR16(M("setHl"), r16_hl, HlAddress), HlAddress, v))

\* the machine between two calls
Machine == [ppu |-> ppu, intr |-> intr, bus |-> bus, clock |-> clock, cpu |-> cpu,
            cart |-> cart, queue |-> queue, now |-> now, log |-> log]

\* cpu.step(1); the log keeps the opcode at PC
StepX ==
    /\ log.calls < MaxExecSteps
    /\ Commit(Counted([step(M("step"), 1) EXCEPT !.log.opcode = busRead(Machine, cpu.p)],
                      "calls"))

NextExec == SetRegistersX \/ SetAX \/ SetHlX \/ StepX

SpecExec == InitExec /\ [][NextExec]_vars

\* the table entry of the opcode at PC
Fetched == decodeInstruction(Machine, cpu.p)

\* C27: after step(1) the cycle counter of the clock has advanced by the
\* cycles the dispatcher returned.
C27_CounterAdvancesByCost ==
    [][log'.op = "step" => clock'.cpuCycles = clock.cpuCycles + log'.cost]_vars

\* C28: a step advances PC by the len of the instruction at PC, modulo
\* 0x10000; JP and CALL set PC to the word that follows the opcode, RET to
\* the word at SP, and JR NZ with Z clear to the address after the
\* instruction plus the signed byte that follows the opcode.
C28_PcByLenOrTarget ==
    [][(log'.op = "step" /\ Fetched.operation # "invalid") =>
            cpu'.p = CASE Fetched.operation \in {"jp", "call"} ->
                            busRead16(Machine, (cpu.p + 1) % 65536)
                       [] Fetched.operation = "ret" ->
                            busRead16(Machine, cpu.r16[r16_sp])
                       [] Fetched.operation = "jrnz" /\ ~HasBit(R8(Machine, r8_f), flag_z) ->
                            (cpu.p + 2 + extendSign8(busRead(Machine, (cpu.p + 1) % 65536)))
                                % 65536
                       [] OTHER -> (cpu.p + Fetched.len) % 65536]_vars

\* C29: DEC r8 stores (r-1) & 0xFF in the register, sets Z iff that is 0,
\* sets N, sets H iff the low nibble of r was 0, and leaves C as it was.
C29_DecR8 ==
    [][\A i \in {Fetched} : \A r \in {R8(Machine, i.par1)} : \A f \in {R8(Machine, r8_f)} :
        (log'.op = "step" /\ i.operation = "dec" /\ i.addressingMode = "reg8") =>
            /\ R8(Machine, i.par1)' = (r + 255) % 256
            /\ HasBit(R8(Machine, r8_f)', flag_z) = ((r + 255) % 256 = 0)
            /\ HasBit(R8(Machine, r8_f)', flag_n)
            /\ HasBit(R8(Machine, r8_f)', flag_h) = (r % 16 = 0)
            /\ HasBit(R8(Machine, r8_f)', flag_c) = HasBit(f, flag_c)]_vars

\* DEC A of 0x00 with every flag set before: 0xFF, with N, H and C
C29_Witness ==
    /\ log.op = "step" /\ log.opcode = 61 /\ log.calls = 1
    /\ R8(Machine, r8_a) = 255
    /\ R8(Machine, r8_f) = flag_n + flag_h + flag_c
    /\ cpu.p = 257

\* C30: INC r8 stores (r+1) & 0xFF in the register, sets Z iff that is 0,
\* clears N, sets H iff the low nibble of r was 0x0F, and leaves C as it
\* was.
C30_IncR8 ==
    [][\A i \in {Fetched} : \A r \in {R8(Machine, i.par1)} : \A f \in {R8(Machine, r8_f)} :
        (log'.op = "step" /\ i.operation = "inc" /\ i.addressingMode = "reg8") =>
            /\ R8(Machine, i.par1)' = (r + 1) % 256
            /\ HasBit(R8(Machine, r8_f)', flag_z) = ((r + 1) % 256 = 0)
            /\ ~HasBit(R8(Machine, r8_f)', flag_n)
            /\ HasBit(R8(Machine, r8_f)', flag_h) = (r % 16 = 15)
            /\ HasBit(R8(Machine, r8_f)', flag_c) = HasBit(f, flag_c)]_vars

\* INC L of 0xFF with every flag set before: 0x00, with Z, H and C
C30_Witness ==
    /\ log.op = "step" /\ log.opcode = 44 /\ log.calls = 1
    /\ R8(Machine, r8_l) = 0
    /\ R8(Machine, r8_f) = flag_z + flag_h + flag_c
    /\ cpu.p = 257

\* a | b on unsigned integers
BitOr(a, b) == a + b - BitAnd(a, b)

\* the byte that follows the opcode at PC
Following == busRead(Machine, (cpu.p + 1) % 65536)

\* C31: CP n (0xFE) leaves A as it was and sets Z iff A = n, sets N, sets H
\* iff the low nibble of A is below the low nibble of n, and sets C iff
\* A < n, where n is the byte that follows the opcode.
C31_CpImmediate ==
    [][\A a \in {R8(Machine, r8_a)} : \A n \in {Following} :
        (log'.op = "step" /\ Fetched.operation = "cp" /\ Fetched.addressingMode = "imm8") =>
            /\ R8(Machine, r8_a)' = a
            /\ HasBit(R8(Machine, r8_f)', flag_z) = (a = n)
            /\ HasBit(R8(Machine, r8_f)', flag_n)
            /\ HasBit(R8(Machine, r8_f)', flag_h) = (a % 16 < n % 16)
            /\ HasBit(R8(Machine, r8_f)', flag_c) = (a < n)]_vars

\* C32: OR r stores A | r in A and XOR r stores A ^ r in A; F becomes Z
\* alone if the result is 0 and 0 otherwise, for every operand register and
\* every F before.
C32_OrXorR8 ==
    [][\A i \in {Fetched} : \A a \in {R8(Machine, r8_a)} : \A r \in {R8(Machine, i.par1)} :
        (log'.op = "step" /\ i.operation \in {"or", "xor"} /\ i.addressingMode = "reg8") =>
            \A result \in {IF i.operation = "or" THEN BitOr(a, r) ELSE BitXor(a, r)} :
                /\ R8(Machine, r8_a)' = result
                /\ R8(Machine, r8_f)' = IF result = 0 THEN flag_z ELSE 0]_vars

\* C33: RLC (HL) (0xCB 0x06) replaces the byte at HL by its left rotation,
\* bit 7 moving to bit 0, sets C to the old bit 7, sets Z iff the result is
\* 0 and clears N and H.
C33_RlcHl ==
    [][\A hl \in {cpu.r16[r16_hl]} : \A old \in {busRead(Machine, cpu.r16[r16_hl])} :
        (log'.op = "step" /\ busRead(Machine, cpu.p) = 203 /\ Following = 6) =>
            \A result \in {((2 * old) % 256) + (old \div 128)} :
                /\ busRead(Machine, hl)' = result
                /\ R8(Machine, r8_f)' = (IF result = 0 THEN flag_z ELSE 0)
                                        + (IF old >= 128 THEN flag_c ELSE 0)]_vars

\* C34: RES 0,A (0xCB 0x87) stores A & 0xFE in A, SET 0,A (0xCB 0xC7)
\* stores A | 0x01 in A, and neither changes F.
C34_ResSetA ==
    [][\A a \in {R8(Machine, r8_a)} : \A f \in {R8(Machine, r8_f)} :
        (log'.op = "step" /\ busRead(Machine, cpu.p) = 203 /\ Following \in {135, 199}) =>
            /\ R8(Machine, r8_a)' = IF Following = 135 THEN ClearBit(a, 1) ELSE SetBit(a, 1)
            /\ R8(Machine, r8_f)' = f]_vars

\* C35: after reset and after every executed instruction the low nibble of
\* F is 0 (the host assigns F only values whose low nibble is 0).
C35_FlagLowNibbleZero == R8(Machine, r8_f) % 16 = 0

\* XOR A executed after the host assigned 0x42 to the registers: A is 0, B
\* is still 0x42 and F is Z alone
C35_Witness ==
    /\ log.op = "step" /\ log.opcode = 175 /\ log.calls = 1
    /\ R8(Machine, r8_a) = 0
    /\ R8(Machine, r8_b) = 66
    /\ R8(Machine, r8_f) = flag_z
    /\ cpu.p = 257

\* C37: JR NZ,e (0x20) with Z clear sets PC to (PC + 2 + signed e) mod
\* 0x10000 and advances the clock by the base cost plus 1; with Z set PC
\* becomes PC + 2 and the clock advances by the base cost; e is the byte that
\* follows the opcode and F is unchanged.  The advance of the clock is read
\* from the cycles handed to the timer.
C37_JrNz ==
    [][\A i \in {Fetched} : \A e \in {Following} : \A f \in {R8(Machine, r8_f)} :
        (log'.op = "step" /\ i.operation = "jrnz" /\ i.addressingMode = "imm8") =>
            /\ R8(Machine, r8_f)' = f
            /\ IF ~HasBit(f, flag_z)
               THEN /\ cpu'.p = (cpu.p + 2 + extendSign8(e)) % 65536
                    /\ log'.timer = i.cycles + 1
               ELSE /\ cpu'.p = (cpu.p + 2) % 65536
                    /\ log'.timer = i.cycles]_vars

\* the opcode at PC is one the CPU cannot execute: its operation is not
\* handled by the dispatcher, or its addressing mode is not handled by an
\* accessor the operation uses
Unexecutable ==
    \/ Fetched.operation \notin {"dec", "di", "inc", "jp", "jrnz", "ld", "ldd", "ldh", "ldi",
                                 "nop", "xor"}
    \/ /\ Fetched.operation \in {"dec", "inc"}
       /\ Fetched.addressingMode \notin (GetArg1Modes \cap SetArg1Modes)
    \/ /\ Fetched.operation \in {"jp", "jrnz", "xor"}
       /\ Fetched.addressingMode \notin GetArg1Modes
    \/ /\ Fetched.operation \in {"ld", "ldd", "ldi"}
       /\ Fetched.addressingMode \notin (GetArg2Modes \cap SetArg1Modes)
    \/ /\ Fetched.operation = "ldh"
       /\ Fetched.addressingMode \notin (GetArg1Modes \cap GetArg2Modes)

\* C38: a step at an opcode the CPU cannot execute reports the failure
\* through the break sink of the host and leaves PC, the registers, memory
\* and the cycle count of the clock as they were.
C38_UnexecutableLeavesState ==
    [][(log'.op = "step" /\ Unexecutable) =>
            /\ log'.break # ""
            /\ log'.error = ""
            /\ cpu' = cpu
            /\ bus' = bus
            /\ clock'.cpuCycles = clock.cpuCycles]_vars

(***************************************************************************)
(* SampleQueue.  capacity is sampleRate / 2, a number with a fractional    *)
(* part for an odd rate, and so are nextSample and the read index, which   *)
(* are reduced modulo capacity: the three are kept here in halves          *)
(* (capacity2 = 2 * capacity).  A Float32Array constructed with a          *)
(* fractional length has the length truncated; an element store at an      *)
(* index that is fractional or beyond the length is ignored and a read     *)
(* there yields undefined, which a Float32Array stores as NaN.             *)
(***************************************************************************)
\* Math.fround on integers below 2^25: above 2^24 only even integers are
\* representable, a tie goes to the multiple of 4
fround(x) ==
    IF x < 16777216 \/ x % 2 = 0 THEN x
    ELSE IF (x + 1) % 4 = 0 THEN x + 1 ELSE x - 1

\* new Float32Array(capacity)
Float32Array(length2) == [i \in 1..(length2 \div 2) |-> 0]

\* data[index] = value
ElementStore(data, index2, value) ==
    IF index2 % 2 = 0 /\ index2 \div 2 < Len(data)
    THEN [data EXCEPT ![(index2 \div 2) + 1] = IF value = NaN THEN NaN ELSE fround(value)]
    ELSE data

\* data[index]
ElementLoad(data, index2) ==
    IF index2 % 2 = 0 /\ index2 \div 2 < Len(data) THEN data[(index2 \div 2) + 1] ELSE NaN

\* this.capacity = sampleRate / 2, in halves
Capacity2(sampleRate) == sampleRate

\* SampleQueue.constructor, with the field initialisers
SampleQueue(sampleRate) ==
    [sampleRate |-> sampleRate,
     capacity2 |-> Capacity2(sampleRate),
     channelLeftData |-> Float32Array(Capacity2(sampleRate)),
     channelRightData |-> Float32Array(Capacity2(sampleRate)),
     length |-> 0,
     nextSample2 |-> 0]

\* SampleQueue.reset
queueReset(m) ==
    [m EXCEPT !.queue.channelLeftData = [i \in DOMAIN @ |-> 0],
              !.queue.channelRightData = [i \in DOMAIN @ |-> 0],
              !.queue.length = 0,
              !.queue.nextSample2 = 0]

\* SampleQueue.push
push(m, left, right) ==
    [m EXCEPT !.queue.channelLeftData = ElementStore(@, m.queue.nextSample2, left),
              !.queue.channelRightData = ElementStore(@, m.queue.nextSample2, right),
              !.queue.length = IF 2 * @ < m.queue.capacity2 THEN @ + 1 ELSE @,
              !.queue.nextSample2 = (@ + 2) % m.queue.capacity2]

\* SampleQueue.getLength
getLength(m) == m.queue.length

\* SampleQueue.fill: the loop; the log keeps the pairs stored in the buffer
RECURSIVE fillLoop(_, _, _, _)
fillLoop(m, iIn2, iOut, bufferLength) ==
    IF iOut < bufferLength /\ m.queue.length > 0
    THEN fillLoop([m EXCEPT !.log.out = Append(@, <<ElementLoad(m.queue.channelLeftData, iIn2),
                                                    ElementLoad(m.queue.channelRightData, iIn2)>>),
                            !.queue.length = @ - 1],
                  (iIn2 + 2) % m.queue.capacity2, iOut + 1, bufferLength)
    ELSE m

\* SampleQueue.fill, for an AudioBuffer of the given length
fill(m, bufferLength) ==
    fillLoop(m,
             (m.queue.nextSample2 - 2 * m.queue.length + m.queue.capacity2)
                 % m.queue.capacity2,
             0, bufferLength)

(***************************************************************************)
(* SpecQueue: a sample queue constructed for a sample rate and reset, then *)
(* pushed to, drained into audio buffers of several lengths and reset.     *)
(* The k-th push carries the k-th pair of Samples.  The log keeps the      *)
(* pairs that a ring buffer of ceil(sampleRate / 2) places holds: the      *)
(* pairs pushed and neither handed out nor overwritten since.              *)
(***************************************************************************)
MaxPushes == 5
MaxFills == 2
SampleRates == {2, 3, 4, 5}
BufferLengths == {1, 2, 4}

\* the left samples pushed, in order; the right sample is the left plus one
Samples == <<3, 16777217, 7, 9, 11, 13>>

InitQueue ==
    \E sampleRate \in SampleRates :
        \E m \in {queueReset([Booted(<<>>) EXCEPT !.queue = SampleQueue(sampleRate)])} :
            /\ ppu = m.ppu
            /\ intr = m.intr
            /\ bus = m.bus
            /\ clock = m.clock
            /\ cpu = m.cpu
            /\ cart = m.cart
            /\ queue = m.queue
            /\ now = m.now
            /\ log = m.log

\* ceil(sampleRate / 2)
CeilHalf(sampleRate) == (sampleRate + 1) \div 2

\* the last n elements of a sequence
Last(seq, n) == IF Len(seq) <= n THEN seq ELSE SubSeq(seq, Len(seq) - n + 1, Len(seq))

\* queue.push(left, right)
PushQ ==
    /\ log.pushes < MaxPushes
    /\ \E left \in {Samples[log.pushes + 1]} :
        Commit([push(M("push"), left, left + 1) EXCEPT
                    !.log.pushes = @ + 1,
                    !.log.held = Last(Append(@, <<fround(left), fround(left + 1)>>),
                                      CeilHalf(queue.sampleRate))])

\* queue.fill(buffer)
FillQ ==
    \E bufferLength \in BufferLengths :
        /\ log.calls < MaxFills
        /\ log.op = "push"
        /\ Commit(Counted([fill(M("fill"), bufferLength) EXCEPT
                               !.log.n = bufferLength,
                               !.log.held = SubSeq(@, bufferLength + 1, Len(@))],
                          "calls"))

\* queue.reset()
ResetQ ==
    /\ log.op = "fill"
    /\ Commit([queueReset(M("queueReset")) EXCEPT !.log.held = <<>>])

NextQueue == PushQ \/ FillQ \/ ResetQ

SpecQueue == InitQueue /\ [][NextQueue]_vars

\* C36: the queue holds at most ceil(sampleRate / 2) samples, as many as were
\* pushed and neither handed out nor overwritten by a push onto the full
\* queue; fill hands out the oldest of the samples held, in push order, as
\* many as the buffer takes, and reduces the length by the number of samples
\* handed out.
C36_QueueHandsOutMostRecent ==
    [][log'.op \in {"push", "fill", "queueReset"} =>
            /\ getLength(Machine)' <= CeilHalf(queue.sampleRate)
            /\ getLength(Machine)' = Len(log'.held)
            /\ log'.op = "fill" =>
                    /\ log'.out = SubSeq(log.held, 1, Len(log'.out))
                    /\ Len(log'.out) = IF log'.n < Len(log.held) THEN log'.n ELSE Len(log.held)
                    /\ getLength(Machine)' = getLength(Machine) - Len(log'.out)]_vars

(***************************************************************************)
(* SpecCpu: the CPU stepping through memory that holds NOPs, as in the     *)
(* repository's interrupt tests: IF and IE are written through the bus,    *)
(* the host assigns state.interruptsEnabled as the tests do, or the field  *)
(* state.enableInterrupts, and SP, and step(1) is called.                  *)
(***************************************************************************)
IfValues == {0, 1, 4, 5, 16}
IeValues == {0, 30, 31}

InitCpu == InitWith(<<>>)

\* bus.write(0xFF0F, value) and bus.write(0xFFFF, value)
IfWrite == \E v \in IfValues : Commit(busWrite(M("ifWrite"), 65295, v))
IeWrite == \E v \in IeValues : Commit(busWrite(M("ieWrite"), 65535, v))

\* the set-up of the interrupt tests: cpu.state.interruptsEnabled = value,
\* which creates the property and leaves state.enableInterrupts as it was
SetInterruptsEnabled ==
    \E e \in BOOLEAN :
        Commit([M("setInterruptsEnabled") EXCEPT !.cpu.interruptsEnabled = <<e>>])

\* the host assigns the field of the state object:
\* cpu.state.enableInterrupts = value
SetEnableInterrupts ==
    \E e \in BOOLEAN :
        Commit([M("setEnableInterrupts") EXCEPT !.cpu.enableInterrupts = e])

\* the host sets SP to 0x1000
SetSp == Commit(SetR16(M("setSp"), r16_sp, 4096))

\* cpu.step(1)
Step ==
    /\ log.calls < MaxSteps
    /\ Commit(Counted(step(M("step"), 1), "calls"))

NextCpu == IfWrite \/ IeWrite \/ SetInterruptsEnabled \/ SetEnableInterrupts \/ SetSp \/ Step

SpecCpu == InitCpu /\ [][NextCpu]_vars

\* Interrupt.pending: the lowest bit set in IE & IF & 0x1F, or 0 for none
pending(m) ==
    LET bits == BitAnd(BitAnd(m.intr.ie, m.intr.if), 31)
    IN  IF bits = 0 THEN 0
        ELSE CHOOSE kind \in {irq_vblank, irq_stat, irq_timer, irq_serial, irq_joypad} :
                /\ HasBit(bits, kind)
                /\ \A lower \in {irq_vblank, irq_stat, irq_timer, irq_serial, irq_joypad} :
                        lower < kind => ~HasBit(bits, lower)

\* the fixed vector of an interrupt kind
Vector(kind) ==
    CASE kind = irq_vblank -> 64
      [] kind = irq_stat -> 72
      [] kind = irq_timer -> 80
      [] kind = irq_serial -> 88
      [] kind = irq_joypad -> 96

Pending == pending([intr |-> intr])

\* the interrupt enable as the host set it: the field enableInterrupts of
\* the state, or the property interruptsEnabled that the set-up of the
\* interrupt tests assigns
Ime == cpu.enableInterrupts \/ cpu.interruptsEnabled = <<TRUE>>

\* C2: a step that begins with the interrupt enable set and a bit set in
\* IE & IF & 0x1F services the interrupt: the enable is cleared, exactly
\* the serviced bit is cleared in IF, the old PC is pushed so that the
\* word at the new SP is the old PC, and PC is the vector of the kind.
C2_StepServicesInterrupt ==
    [][(log'.op = "step" /\ Ime /\ Pending # 0) =>
            /\ ~Ime'
            /\ intr'.if = ClearBit(intr.if, Pending)
            /\ cpu'.r16[r16_sp] = (cpu.r16[r16_sp] + 65534) % 65536
            /\ ByteAt(bus'.mem, cpu'.r16[r16_sp])
                   + 256 * ByteAt(bus'.mem, (cpu'.r16[r16_sp] + 1) % 65536) = cpu.p
            /\ cpu'.p = Vector(Pending)]_vars

\* C3: the interrupt a step services is the lowest bit set in
\* IE & IF & 0x1F, a bit of IF that IE masks stays set, and with the
\* interrupt enable clear or nothing pending the step executes the NOP at
\* PC and services nothing.
C3_LowestEnabledServiced ==
    [][log'.op = "step" =>
            IF Ime /\ Pending # 0
            THEN /\ cpu'.p = Vector(Pending)
                 /\ \A kind \in {irq_vblank, irq_stat, irq_timer, irq_serial, irq_joypad} :
                        HasBit(intr'.if, kind) = (HasBit(intr.if, kind) /\ kind # Pending)
            ELSE /\ cpu'.p = (cpu.p + 1) % 65536
                 /\ intr'.if = intr.if
                 /\ Ime' = Ime]_vars

====
